---------------------------- MODULE Spec2Model ----------------------------
(***************************************************************************)
(* Model of the state synchronisation core of homebridge-nest-google:      *)
(* GoogleNestThermostatApi.fetch (the single-flight cache with its refresh *)
(* lock and adaptive timeout) as it is called by the characteristic get    *)
(* handler handleCurrentHeatingCoolingStateGet.                            *)
(*                                                                         *)
(* JavaScript runs each continuation to completion: an action of the model *)
(* is the code between two suspension points (await) of one handler call.  *)
(* Time is kept as clocks, in milliseconds: `age' is                       *)
(* Date.now() - cache.timestamp, `waited' is the time a caller has spent   *)
(* in fetchMutex.acquire().  Both saturate just above the largest value    *)
(* the code compares them with.                                            *)
(***************************************************************************)
EXTENDS Integers, Sequences, FiniteSets, TLC

\* ------------------------------------------------------------------ bounds
NumProcs == 2
MaxReads == 3

Procs == 1..NumProcs

\* --------------------------------------------------------------- constants
seconds(x) == x * 1000

MutexWait == 500
NominalSeconds == 5
OfflineSeconds == 30

\* The steps by which time advances, and the value above which a cache age
\* is no longer distinguished (past every budget).
TickSteps == {seconds(NominalSeconds), seconds(OfflineSeconds)}
AgeCap == seconds(OfflineSeconds) + seconds(NominalSeconds)

Min(a, b) == IF a <= b THEN a ELSE b

\* ------------------------------------------------------------- value model
Undefined == "undefined"
Null == [null |-> TRUE]
NoGroup == [missing |-> TRUE]

ConnectivityValues == {"ONLINE", "OFFLINE", Undefined}

\* A trait group of the remote device document: missing, or a record with a
\* status field that may itself be undefined.
Group(values) == {NoGroup} \cup [status : values]

\* An optional number or array: absent, or the value.
Absent == <<>>
Some(v) == <<v>>

\* The remote device documents a read may return while the calls under
\* study are those of handleCurrentHeatingCoolingStateGet: the other trait
\* groups are missing.
Devices ==
    [Connectivity : Group(ConnectivityValues),
     ThermostatHvac : {NoGroup} \cup [status : {"HEATING", Undefined}],
     ThermostatEco : {NoGroup},
     Temperature : {NoGroup},
     ThermostatMode : {NoGroup},
     Settings : {NoGroup},
     ThermostatTemperatureSetpoint : {NoGroup},
     Humidity : {NoGroup}]

\* device.traits?.[group]?.status
StatusOf(group) == IF group = NoGroup THEN Undefined ELSE group.status

\* device.traits?.[group]?.[name], `undefined' being the absent value of
\* the field's type
FieldOf(group, name, undefined) ==
    IF group = NoGroup THEN undefined ELSE group[name]

\* deviceToTraits; `read' is the identity of the remote read the document
\* came from (history, not program state).
deviceToTraits(device, read) ==
    [connectivity |-> StatusOf(device.Connectivity),
     ecoMode |-> FieldOf(device.ThermostatEco, "mode", Undefined),
     currentTemperature |->
         FieldOf(device.Temperature, "ambientTemperatureCelsius", Absent),
     hvacStatus |-> StatusOf(device.ThermostatHvac),
     targetMode |-> FieldOf(device.ThermostatMode, "mode", Undefined),
     availableTargetModes |->
         FieldOf(device.ThermostatMode, "availableModes", Absent),
     displayUnit |-> FieldOf(device.Settings, "temperatureScale", Undefined),
     temperatureSetpoint |-> device.ThermostatTemperatureSetpoint,
     relativeHumidity |->
         FieldOf(device.Humidity, "ambientHumidityPercent", Absent),
     read |-> read]

\* this.cache.traits?.connectivity
ConnectivityOf(traits) == IF traits = Null THEN Undefined ELSE traits.connectivity

\* new GoogleNestThermostatCharacteristics(traits, error)
NewCharacteristics(traits) == [traits |-> traits]

\* GoogleNestThermostatCharacteristics.get(name): the value, or the error
\* callback's RESOURCE_DOES_NOT_EXIST when the field is falsy.
NumberFields == {"currentTemperature", "relativeHumidity"}

\* !x of JavaScript for an optional number: undefined and 0 are falsy.
FalsyNumber(x) == x = Absent \/ x = Some(0)

\* !this.traits[name]
Falsy(name, v) ==
    CASE name \in NumberFields -> FalsyNumber(v)
      [] name = "availableTargetModes" -> v = Absent
      [] name = "temperatureSetpoint" -> v = NoGroup
      [] OTHER -> v = Undefined

\* get(name) calls the error callback, which throws.
Throws(characteristics, name) == Falsy(name, characteristics.traits[name])

CharacteristicsGet(characteristics, name) ==
    IF Throws(characteristics, name)
    THEN "RESOURCE_DOES_NOT_EXIST"
    ELSE characteristics.traits[name]

\* The body of handleCurrentHeatingCoolingStateGet after fetch() returned.
CurrentHeatingCoolingStateWrong(characteristics) == "OFF"

CurrentHeatingCoolingState(characteristics) ==
    LET status == CharacteristicsGet(characteristics, "hvacStatus")
    IN  CASE status = "RESOURCE_DOES_NOT_EXIST" -> status
          [] status = "HEATING" -> "HEAT"
          [] status = "COOLING" -> "COOL"
          [] OTHER -> "OFF"

\* ---------------------------------------------------------------- Handlers
\* What a handler step ends in: a returned value (`value' names it, `num'
\* carries a returned number), a thrown status (`value' is the status), or a
\* remote command to execute (`command').
NoCommand == [name |-> "none"]

Returned(v) == [value |-> v, num |-> Absent, command |-> NoCommand]

\* A returned number; a handler may also return an undefined field.
ReturnedNumber(n) ==
    [value |-> IF n = Absent THEN "undefined" ELSE "number",
     num |-> n, command |-> NoCommand]

Thrown(status) == Returned(status)

\* api.executeCommand(name, params)
Commanded(name, params) ==
    [value |-> "command", num |-> Absent,
     command |-> [name |-> name, params |-> params]]

ErrorCallbackWrong == Thrown("SERVICE_COMMUNICATION_FAILURE")

\* The error callback save() hands to the accessor.
ErrorCallback == Thrown("RESOURCE_DOES_NOT_EXIST")

NotAllowedWrong ==
    [value |-> "NOT_ALLOWED_IN_CURRENT_STATE", num |-> Absent,
     command |-> [name |-> "sdm.devices.commands.ThermostatMode.SetMode",
                  params |-> [mode |-> "OFF"]]]

NotAllowed == Thrown("NOT_ALLOWED_IN_CURRENT_STATE")

\* Characteristic.TargetHeatingCoolingState and
\* Characteristic.CurrentHeatingCoolingState.OFF
TargetOFF == 0
TargetHEAT == 1
TargetCOOL == 2
TargetAUTO == 3
CurrentOFF == 0
validValues == {TargetOFF, TargetHEAT, TargetCOOL, TargetAUTO}

handleCurrentHeatingCoolingStateGet(characteristics) ==
    Returned(CurrentHeatingCoolingState(characteristics))

handleTargetHeatingCoolingStateGet(characteristics) ==
    IF Throws(characteristics, "targetMode") THEN ErrorCallback
    ELSE LET targetMode == characteristics.traits.targetMode
         IN  CASE targetMode = "HEAT" -> ReturnedNumber(Some(TargetHEAT))
               [] targetMode = "COOL" -> ReturnedNumber(Some(TargetCOOL))
               [] targetMode = "HEATCOOL" -> ReturnedNumber(Some(TargetAUTO))
               [] OTHER -> ReturnedNumber(Some(CurrentOFF))

valueToModeWrong(value) ==
    CASE value = TargetHEAT -> "COOL"
      [] value = TargetCOOL -> "HEAT"
      [] value = TargetAUTO -> "HEATCOOL"
      [] OTHER -> "OFF"

valueToMode(value) ==
    CASE value = TargetHEAT -> "HEAT"
      [] value = TargetCOOL -> "COOL"
      [] value = TargetAUTO -> "HEATCOOL"
      [] OTHER -> "OFF"

includesWrong(modes, mode) == TRUE

\* modes.includes(mode), modes being a present array
includes(modes, mode) == mode \in modes[1]

handleTargetHeatingCoolingStateSet(value, characteristics) ==
    IF Throws(characteristics, "ecoMode") THEN ErrorCallback
    ELSE IF characteristics.traits.ecoMode = "MANUAL_ECO" THEN NotAllowed
    ELSE IF Throws(characteristics, "availableTargetModes") THEN ErrorCallback
    ELSE IF ~includes(characteristics.traits.availableTargetModes,
                      valueToMode(value))
         THEN Thrown("INVALID_VALUE_IN_REQUEST")
    ELSE Commanded("sdm.devices.commands.ThermostatMode.SetMode",
                   [mode |-> valueToMode(value)])

handleCurrentTemperatureGet(characteristics) ==
    IF Throws(characteristics, "currentTemperature") THEN ErrorCallback
    ELSE ReturnedNumber(characteristics.traits.currentTemperature)

handleTargetTemperatureGet(characteristics) ==
    IF Throws(characteristics, "temperatureSetpoint") THEN ErrorCallback
    ELSE LET setpoint == characteristics.traits.temperatureSetpoint
             heat == setpoint.heatCelsius
             cool == setpoint.coolCelsius
         IN  IF ~FalsyNumber(heat) /\ FalsyNumber(cool)
             THEN ReturnedNumber(heat)
             ELSE IF FalsyNumber(heat) /\ ~FalsyNumber(cool)
             THEN ReturnedNumber(cool)
             ELSE handleCurrentTemperatureGet(characteristics)

handleTargetTemperatureSetWrong(value) == Returned("void")

handleTargetTemperatureSet(value) == Thrown("READ_ONLY_CHARACTERISTIC")

handleTemperatureDisplayUnitsGet(characteristics) ==
    IF Throws(characteristics, "displayUnit") THEN ErrorCallback
    ELSE IF characteristics.traits.displayUnit = "FAHRENHEIT"
         THEN Returned("TemperatureDisplayUnits.FAHRENHEIT")
         ELSE Returned("TemperatureDisplayUnits.CELSIUS")

handleTemperatureDisplayUnitsSet(value) == Thrown("READ_ONLY_CHARACTERISTIC")

handleCoolingThresholdTemperatureGet(characteristics) ==
    IF Throws(characteristics, "temperatureSetpoint") THEN ErrorCallback
    ELSE LET setpoint == characteristics.traits.temperatureSetpoint
         IN  IF FalsyNumber(setpoint.coolCelsius)
             THEN ReturnedNumber(setpoint.heatCelsius)
             ELSE ReturnedNumber(setpoint.coolCelsius)

CoolingModesWrong == {"COOL", "HEATCOOL", "HEAT", "OFF"}

\* mode !== 'COOL' && mode !== 'HEATCOOL' throws
CoolingModes == {"COOL", "HEATCOOL"}

HeatingModes == {"HEAT", "HEATCOOL"}

SetRangeWrong(heat, cool) ==
    Commanded("sdm.devices.commands.ThermostatTemperatureSetpoint.SetRange",
              [heatCelsius |-> cool, coolCelsius |-> heat])

SetRange(heat, cool) ==
    Commanded("sdm.devices.commands.ThermostatTemperatureSetpoint.SetRange",
              [heatCelsius |-> heat, coolCelsius |-> cool])

handleCoolingThresholdTemperatureSet(value, characteristics) ==
    IF Throws(characteristics, "ecoMode") THEN ErrorCallback
    ELSE IF characteristics.traits.ecoMode = "MANUAL_ECO" THEN NotAllowed
    ELSE IF Throws(characteristics, "targetMode") THEN ErrorCallback
    ELSE IF characteristics.traits.targetMode \notin CoolingModes
         THEN NotAllowed
    ELSE IF characteristics.traits.targetMode = "COOL"
         THEN Commanded(
                  "sdm.devices.commands.ThermostatTemperatureSetpoint.SetCool",
                  [coolCelsius |-> Some(value)])
    ELSE IF Throws(characteristics, "temperatureSetpoint") THEN ErrorCallback
    ELSE SetRange(characteristics.traits.temperatureSetpoint.heatCelsius,
                  Some(value))

handleHeatingThresholdTemperatureGet(characteristics) ==
    IF Throws(characteristics, "temperatureSetpoint") THEN ErrorCallback
    ELSE LET setpoint == characteristics.traits.temperatureSetpoint
         IN  IF FalsyNumber(setpoint.heatCelsius)
             THEN ReturnedNumber(setpoint.coolCelsius)
             ELSE ReturnedNumber(setpoint.heatCelsius)

handleHeatingThresholdTemperatureSet(value, characteristics) ==
    IF Throws(characteristics, "ecoMode") THEN ErrorCallback
    ELSE IF characteristics.traits.ecoMode = "MANUAL_ECO" THEN NotAllowed
    ELSE IF Throws(characteristics, "targetMode") THEN ErrorCallback
    ELSE IF characteristics.traits.targetMode \notin HeatingModes
         THEN NotAllowed
    ELSE IF characteristics.traits.targetMode = "HEAT"
         THEN Commanded(
                  "sdm.devices.commands.ThermostatTemperatureSetpoint.SetHeat",
                  [heatCelsius |-> Some(value)])
    ELSE IF Throws(characteristics, "temperatureSetpoint") THEN ErrorCallback
    ELSE SetRange(Some(value),
                  characteristics.traits.temperatureSetpoint.coolCelsius)

handleEcoSwitchGet(characteristics) ==
    IF Throws(characteristics, "ecoMode") THEN ErrorCallback
    ELSE IF characteristics.traits.ecoMode = "MANUAL_ECO"
         THEN Returned("true") ELSE Returned("false")

handleEcoSwitchSetWrong(value) ==
    Commanded("sdm.devices.commands.ThermostatEco.SetMode",
              [mode |-> IF value # 0 THEN "OFF" ELSE "MANUAL_ECO"])

\* value ? 'MANUAL_ECO' : 'OFF'
handleEcoSwitchSet(value) ==
    Commanded("sdm.devices.commands.ThermostatEco.SetMode",
              [mode |-> IF value # 0 THEN "MANUAL_ECO" ELSE "OFF"])

handleCurrentRelativeHumidityGet(characteristics) ==
    IF Throws(characteristics, "relativeHumidity") THEN ErrorCallback
    ELSE ReturnedNumber(characteristics.traits.relativeHumidity)

\* The handlers that start with api.fetch(), and those that do not.
FetchKinds ==
    {"CurrentHeatingCoolingStateGet", "TargetHeatingCoolingStateGet",
     "TargetHeatingCoolingStateSet", "CurrentTemperatureGet",
     "TargetTemperatureGet", "TemperatureDisplayUnitsGet",
     "CoolingThresholdTemperatureGet", "CoolingThresholdTemperatureSet",
     "HeatingThresholdTemperatureGet", "HeatingThresholdTemperatureSet",
     "EcoSwitchGet", "CurrentRelativeHumidityGet"}

DirectKinds ==
    {"TargetTemperatureSet", "TemperatureDisplayUnitsSet", "EcoSwitchSet"}

\* A request of the home hub: the handler it invokes and the value it
\* carries (0 for a read; an On value is 1 for true, 0 for false).
NoRequest == [kind |-> "none", value |-> 0]

\* The request the calls of the first specification make.
HvacRequest == [kind |-> "CurrentHeatingCoolingStateGet", value |-> 0]

\* The rest of a fetching handler, after api.fetch() returned the accessor.
HandlerBody(request, characteristics) ==
    LET kind == request.kind
        value == request.value
    IN  CASE kind = "CurrentHeatingCoolingStateGet" ->
                 handleCurrentHeatingCoolingStateGet(characteristics)
          [] kind = "TargetHeatingCoolingStateGet" ->
                 handleTargetHeatingCoolingStateGet(characteristics)
          [] kind = "TargetHeatingCoolingStateSet" ->
                 handleTargetHeatingCoolingStateSet(value, characteristics)
          [] kind = "CurrentTemperatureGet" ->
                 handleCurrentTemperatureGet(characteristics)
          [] kind = "TargetTemperatureGet" ->
                 handleTargetTemperatureGet(characteristics)
          [] kind = "TemperatureDisplayUnitsGet" ->
                 handleTemperatureDisplayUnitsGet(characteristics)
          [] kind = "CoolingThresholdTemperatureGet" ->
                 handleCoolingThresholdTemperatureGet(characteristics)
          [] kind = "CoolingThresholdTemperatureSet" ->
                 handleCoolingThresholdTemperatureSet(value, characteristics)
          [] kind = "HeatingThresholdTemperatureGet" ->
                 handleHeatingThresholdTemperatureGet(characteristics)
          [] kind = "HeatingThresholdTemperatureSet" ->
                 handleHeatingThresholdTemperatureSet(value, characteristics)
          [] kind = "EcoSwitchGet" -> handleEcoSwitchGet(characteristics)
          [] OTHER -> handleCurrentRelativeHumidityGet(characteristics)

\* A handler that does not fetch.
DirectBody(request) ==
    CASE request.kind = "TargetTemperatureSet" ->
             handleTargetTemperatureSet(request.value)
      [] request.kind = "TemperatureDisplayUnitsSet" ->
             handleTemperatureDisplayUnitsSet(request.value)
      [] OTHER -> handleEcoSwitchSet(request.value)

\* ----------------------------------------------------------------- Timeout
TimeoutInit == seconds(NominalSeconds)

TimeoutResetWrong(value) == value

TimeoutReset(value) == seconds(NominalSeconds)

TimeoutOfflineWrong(value) == value

TimeoutOffline(value) == seconds(OfflineSeconds)

\* ------------------------------------------------------- update handler
\* Temperatures are kept in ninetieths of a degree Celsius, in which the
\* step 0.1 is 9 and f2c(temp) = (temp - 32) / 1.8 is (temp - 32) * 50.
PerDegree == 90

Degrees(celsius) == celsius * PerDegree

tempStep == 9

f2cWrong(temp) == (temp - 32) * PerDegree

f2c(temp) == (temp - 32) * 50

\* Before the first notification the characteristics keep the ranges the
\* framework gave them.
NoProps == [unset |-> TRUE]

\* CharacresticsUpdateHandler.onDisplayUnit: the step of the four
\* temperature characteristics, the range of the current temperature
\* (minGet, maxGet) and that of the target temperature and of the two
\* thresholds (minSet, maxSet).
onDisplayUnit(unit) ==
    IF unit = "FAHRENHEIT"
    THEN [minStep |-> tempStep, minSet |-> f2c(50), maxSet |-> f2c(90),
          minGet |-> f2c(0), maxGet |-> f2c(160)]
    ELSE [minStep |-> tempStep, minSet |-> Degrees(10), maxSet |-> Degrees(32),
          minGet |-> Degrees(-20), maxGet |-> Degrees(60)]

\* ---------------------------------------------------------------- platform
\* The longest device list the cloud answers with.
MaxDevices == 3

\* device.name of the devices of the project: resource names, no two
\* devices sharing one.
DeviceNames ==
    {"enterprises/p/devices/AVPHwE", "enterprises/p/devices/BXq1Zs",
     "enterprises/p/devices/C03kTm"}

\* device.name.slice(-6)
LastSix(name) ==
    CASE name = "enterprises/p/devices/AVPHwE" -> "AVPHwE"
      [] name = "enterprises/p/devices/BXq1Zs" -> "BXq1Zs"
      [] OTHER -> "C03kTm"

\* api.hap.uuid.generate(name): a digest of the name.
generate(name) == <<"uuid", LastSix(name)>>

\* device.parentRelations ?? []: no relation, a relation with a display
\* name, a relation without one.
ParentRelations ==
    {<<>>, <<[displayName |-> "Living Room"]>>, <<[displayName |-> Undefined]>>}

\* The documents of the device list; a name may be no string.
ListedDevices ==
    [name : DeviceNames, parentRelations : ParentRelations]
        \cup [name : {Undefined}, parentRelations : {<<>>}]

RECURSIVE Distinct(_)
Distinct(devices) ==
    IF devices = <<>> THEN TRUE
    ELSE /\ \A i \in 2..Len(devices) :
               devices[i].name = Undefined \/ devices[i].name # Head(devices).name
         /\ Distinct(Tail(devices))

RECURSIVE Lists(_)
Lists(n) ==
    IF n = 0 THEN {<<>>}
    ELSE Lists(n - 1)
             \cup {Append(devices, device) :
                       devices \in {l \in Lists(n - 1) : Len(l) = n - 1},
                       device \in ListedDevices}

DeviceLists == {devices \in Lists(MaxDevices) : Distinct(devices)}

\* new api.platformAccessory(displayName, uuid), with its context
PlatformAccessory(displayName, name) ==
    [displayName |-> displayName, UUID |-> generate(name), name |-> name]

\* An accessory homebridge restores: one this plugin registered in an
\* earlier run.
Restored(name) == PlatformAccessory("Device " \o LastSix(name), name)

NewPlatform ==
    [phase |-> "restoring", accessories |-> <<>>, cached |-> FALSE,
     listed |-> <<>>, unregistered |-> <<>>, handlers |-> <<>>,
     registered |-> <<>>]

\* this.accessories.find(accessory => accessory.UUID === uuid)
existingAccessory(state, uuid) ==
    {i \in 1..Len(state.accessories) : state.accessories[i].UUID = uuid}

\* let [{ displayName }] = device.parentRelations ?? []; the fallback when
\* the relation has no display name.
displayNameOf(device) ==
    IF device.parentRelations[1].displayName = Undefined
    THEN "Device " \o LastSix(device.name)
    ELSE device.parentRelations[1].displayName

\* discoverDevice(device, gapi); destructuring the first element of an
\* empty array throws a TypeError, which ends the loop of discoverDevices.
discoverDevice(state, device) ==
    IF device.name = Undefined THEN state
    ELSE IF existingAccessory(state, generate(device.name)) # {}
    THEN [state EXCEPT !.handlers = Append(@, generate(device.name))]
    ELSE IF device.parentRelations = <<>>
    THEN [state EXCEPT !.phase = "raised"]
    ELSE [state EXCEPT
            !.handlers = Append(@, generate(device.name)),
            !.registered =
                Append(@, PlatformAccessory(displayNameOf(device), device.name))]

\* for (const device of res.data.devices ?? []) this.discoverDevice(...)
RECURSIVE discoverEach(_, _)
discoverEach(state, devices) ==
    IF devices = <<>> \/ state.phase = "raised" THEN state
    ELSE discoverEach(discoverDevice(state, Head(devices)), Tail(devices))

\* The accessories discoverDevices unregisters: when some were restored,
\* those whose context.name no listed device has.
Unregistered(state, devices) ==
    IF state.cached
    THEN SelectSeq(state.accessories,
                   LAMBDA accessory :
                       \A i \in 1..Len(devices) : devices[i].name # accessory.name)
    ELSE <<>>

\* ------------------------------------------------------------------- state
VARIABLES
    pc,        \* per call: "idle", "waiting", "granted", "reading",
               \* "commanding"
    req,       \* per call: the request being handled
    cmd,       \* per call: the remote command in flight
    waited,    \* per call: ms spent waiting in fetchMutex.acquire()
    queue,     \* the mutex's waiters, first come first served
    owner,     \* the call holding fetchMutex, 0 when it is free
    cache,     \* [traits, characrestics, age]
    timeout,   \* Timeout.value
    reads,     \* history: remote reads issued so far
    rid,       \* history, per call: the remote read it has in flight, or 0
    behind,    \* history, per call: the read in flight when it called fetch()
    okReads,   \* history: the reads that returned status 200
    last,      \* history: the handler step that completed last, and how
    props,     \* the value ranges onDisplayUnit set on the characteristics
    notes,     \* history: the units onDisplayUnit was called with, in order
    platform   \* GoogleNestPlatform: the restored accessories, and what
               \* discovery registered

vars ==
    <<pc, req, cmd, waited, queue, owner, cache, timeout, reads, rid, behind,
      okReads, last, props, notes, platform>>

NoCall ==
    [pid |-> 0, path |-> "none", fetch |-> "none", value |-> "none",
     seen |-> 0, issued |-> 0, behind |-> 0, fresh |-> TRUE,
     kind |-> "none", arg |-> 0, num |-> Absent, command |-> NoCommand]

Init ==
    /\ pc = [p \in Procs |-> "idle"]
    /\ req = [p \in Procs |-> NoRequest]
    /\ cmd = [p \in Procs |-> NoCommand]
    /\ waited = [p \in Procs |-> 0]
    /\ queue = <<>>
    /\ owner = 0
    /\ cache = [traits |-> Null, characrestics |-> Null, age |-> 0]
    /\ timeout = TimeoutInit
    /\ reads = 0
    /\ rid = [p \in Procs |-> 0]
    /\ behind = [p \in Procs |-> 0]
    /\ okReads = {}
    /\ last = NoCall
    /\ props = NoProps
    /\ notes = <<>>
    /\ platform = NewPlatform

\* ------------------------------------------------------------------- mutex
\* Mutex.isLocked()
isLockedWrong == FALSE

isLocked == owner # 0

\* The timer of withTimeout(mutex, 500, RESOURCE_BUSY) has run out for p.
TimedOutWrong(p) == TRUE

TimedOut(p) == waited[p] >= MutexWait

GrantedWrong == Procs

\* A continuation handed the lock runs before any timer or I/O callback.
Granted == {p \in Procs : pc[p] = "granted"}

ReleaseToWrong == owner

\* release(): the lock goes to the first waiter, if any.
ReleaseTo == IF queue = <<>> THEN 0 ELSE Head(queue)

PcAfterRelease(p, next) ==
    IF queue = <<>>
    THEN [pc EXCEPT ![p] = next]
    ELSE [pc EXCEPT ![p] = next, ![Head(queue)] = "granted"]

\* release(), the handler of p going on to `next'
Release(p, next) ==
    /\ owner' = ReleaseTo
    /\ queue' = IF queue = <<>> THEN <<>> ELSE Tail(queue)
    /\ pc' = PcAfterRelease(p, next)
    /\ waited' = [q \in Procs |-> IF q = ReleaseTo THEN 0 ELSE waited[q]]

\* What the handler of p ends in once fetch() returned the accessor or
\* threw: a throw of fetch() leaves the handler as it is.
Outcome(p, fetch, characteristics) ==
    IF fetch = "accessor"
    THEN HandlerBody(req[p], characteristics)
    ELSE Thrown(fetch)

\* A handler that goes on to api.executeCommand() awaits the command;
\* any other is over.
PcAfter(outcome) ==
    IF outcome.command = NoCommand THEN "idle" ELSE "commanding"

\* The state of the request and of the command after a handler step.
Proceed(p, request, outcome) ==
    /\ cmd' = [cmd EXCEPT ![p] = outcome.command]
    /\ req' = [req EXCEPT ![p] =
                 IF outcome.command = NoCommand THEN NoRequest ELSE request]

\* The fetch() of p is over, and the handler's code up to its return, throw
\* or command with it: the outcome is recorded.
Finish(p, path, fetch, characteristics, fresh) ==
    /\ last' = [pid |-> p, path |-> path, fetch |-> fetch,
                value |-> Outcome(p, fetch, characteristics).value,
                seen |-> IF characteristics = Null THEN 0
                         ELSE characteristics.traits.read,
                issued |-> rid[p], behind |-> behind[p], fresh |-> fresh,
                kind |-> req[p].kind, arg |-> req[p].value,
                num |-> Outcome(p, fetch, characteristics).num,
                command |-> Outcome(p, fetch, characteristics).command]
    /\ Proceed(p, req[p], Outcome(p, fetch, characteristics))
    /\ rid' = [rid EXCEPT ![p] = 0]
    /\ behind' = [behind EXCEPT ![p] = 0]

\* ------------------------------------------------------------------- fetch
\* The cache check of fetch().
CacheAliveStrict == cache.traits # Null /\ cache.age < timeout

CacheAliveWrong == cache.traits # Null

CacheAlive == cache.traits # Null /\ cache.age <= timeout

\* The check fetch() makes on a live entry, inside the try block.
OfflineInCacheWrong == FALSE

OfflineInCache == ConnectivityOf(cache.traits) = "OFFLINE"

\* The check fetch() makes after releasing the lock.
IsOfflineWrong(traits) == FALSE

IsOffline(traits) == ConnectivityOf(traits) = "OFFLINE"

\* A handler calls fetch(): fetchMutex.acquire() takes the free lock, or
\* queues the call and starts the 500 ms timer.
Call(p, request) ==
    /\ pc[p] = "idle"
    /\ request.kind \in FetchKinds
    /\ req' = [req EXCEPT ![p] = request]
    /\ IF isLocked
       THEN /\ pc' = [pc EXCEPT ![p] = "waiting"]
            /\ queue' = Append(queue, p)
            /\ owner' = owner
       ELSE /\ pc' = [pc EXCEPT ![p] = "granted"]
            /\ queue' = queue
            /\ owner' = p
    /\ waited' = [waited EXCEPT ![p] = 0]
    /\ behind' = [behind EXCEPT ![p] =
                    IF \E q \in Procs : pc[q] = "reading"
                    THEN rid[CHOOSE q \in Procs : pc[q] = "reading"]
                    ELSE 0]
    /\ UNCHANGED <<cmd, cache, timeout, reads, rid, okReads, last, props, notes, platform>>

\* The timer of acquire() fires before the lock was handed over: the call
\* fails with RESOURCE_BUSY.
AcquireTimeout(p) ==
    /\ pc[p] = "waiting"
    /\ Granted = {}
    /\ TimedOut(p)
    /\ pc' = [pc EXCEPT ![p] = "idle"]
    /\ queue' = SelectSeq(queue, LAMBDA q : q # p)
    /\ waited' = [waited EXCEPT ![p] = 0]
    /\ Finish(p, "busy", "RESOURCE_BUSY", Null, TRUE)
    /\ UNCHANGED <<owner, cache, timeout, reads, okReads, props, notes, platform>>

\* Holding the lock, the cache entry is alive: an OFFLINE entry fails the
\* call, any other is returned; the lock is released on the way out.
HitResult ==
    IF OfflineInCache THEN "SERVICE_COMMUNICATION_FAILURE" ELSE "accessor"

CacheHit(p) ==
    /\ pc[p] = "granted"
    /\ CacheAlive
    /\ Release(p, PcAfter(Outcome(p, HitResult, cache.characrestics)))
    /\ Finish(p, "hit", HitResult, cache.characrestics, cache.age <= timeout)
    /\ UNCHANGED <<cache, timeout, reads, okReads, props, notes, platform>>

\* Holding the lock, no live entry: gapi.enterprises.devices.get is issued.
CacheMiss(p) ==
    /\ pc[p] = "granted"
    /\ ~CacheAlive
    /\ reads < MaxReads
    /\ reads' = reads + 1
    /\ rid' = [rid EXCEPT ![p] = reads + 1]
    /\ pc' = [pc EXCEPT ![p] = "reading"]
    /\ UNCHANGED <<req, cmd, waited, queue, owner, cache, timeout, behind,
                   okReads, last, props, notes, platform>>

\* What fetch() does after the try block: the adaptive timeout follows the
\* entry's connectivity, and an OFFLINE entry fails the call.
AfterRelease(p, path, entry) ==
    IF IsOffline(entry.traits)
    THEN /\ timeout' = TimeoutOffline(timeout)
         /\ Finish(p, path, "SERVICE_COMMUNICATION_FAILURE", entry.characrestics,
                   entry.age <= TimeoutOffline(timeout))
    ELSE /\ timeout' = TimeoutReset(timeout)
         /\ Finish(p, path, "accessor", entry.characrestics,
                   entry.age <= TimeoutReset(timeout))

NextAfterReleaseWrong(p, entry) == "granted"

\* Where the handler of p goes after the try block of fetch().
NextAfterRelease(p, entry) ==
    PcAfter(Outcome(p, IF IsOffline(entry.traits)
                       THEN "SERVICE_COMMUNICATION_FAILURE" ELSE "accessor",
                    entry.characrestics))

\* save(traits)
SaveWrong(traits) ==
    [traits |-> traits, characrestics |-> NewCharacteristics(traits), age |-> cache.age]

SaveStale(traits) ==
    [traits |-> traits,
     characrestics |-> IF cache.characrestics = Null
                       THEN NewCharacteristics(traits)
                       ELSE cache.characrestics,
     age |-> 0]

Save(traits) ==
    [traits |-> traits, characrestics |-> NewCharacteristics(traits), age |-> 0]

\* this.cache.traits?.displayUnit
PreviousUnit == IF cache.traits = Null THEN Undefined ELSE cache.traits.displayUnit

NotifiesWrong(traits) == traits.displayUnit # Undefined

\* The test save() makes before it replaces the entry.
Notifies(traits) ==
    PreviousUnit # traits.displayUnit /\ traits.displayUnit # Undefined

\* save() calls updateHandler.onDisplayUnit when the unit changed.
Notify(traits) ==
    IF Notifies(traits)
    THEN /\ props' = onDisplayUnit(traits.displayUnit)
         /\ notes' = Append(notes, traits.displayUnit)
    ELSE UNCHANGED <<props, notes>>

\* The read returns status 200: the document is extracted and saved.
ReadOk(p, device) ==
    /\ pc[p] = "reading"
    /\ Granted = {}
    /\ Notify(deviceToTraits(device, rid[p]))
    /\ cache' = Save(deviceToTraits(device, rid[p]))
    /\ okReads' = okReads \cup {rid[p]}
    /\ Release(p, NextAfterRelease(p, cache'))
    /\ AfterRelease(p, "refreshed", cache')
    /\ UNCHANGED <<reads, platform>>

\* The read returns another status: without an entry the call fails, with
\* one the entry is kept.
KeepsEntryWrong == FALSE

KeepsEntry == cache.traits # Null

ReadFailed(p) ==
    /\ pc[p] = "reading"
    /\ Granted = {}
    /\ Release(p, IF KeepsEntry THEN NextAfterRelease(p, cache) ELSE "idle")
    /\ IF KeepsEntry
       THEN AfterRelease(p, "failed", cache)
       ELSE /\ Finish(p, "failed", "SERVICE_COMMUNICATION_FAILURE", Null, TRUE)
            /\ timeout' = timeout
    /\ UNCHANGED <<cache, reads, okReads, props, notes, platform>>

\* The read raises (a transport error): nothing catches it, the finally
\* block releases the lock and the error leaves fetch() and the handler.
ReadRaised(p) ==
    /\ pc[p] = "reading"
    /\ Granted = {}
    /\ Release(p, "idle")
    /\ Finish(p, "raised", "TRANSPORT_ERROR", Null, TRUE)
    /\ UNCHANGED <<cache, timeout, reads, okReads, props, notes, platform>>

\* Time passes.
Tick(d) ==
    /\ Granted = {}
    /\ cache' = [cache EXCEPT !.age = Min(cache.age + d, AgeCap)]
    /\ waited' = [p \in Procs |->
                    IF pc[p] = "waiting" THEN Min(waited[p] + d, MutexWait) ELSE 0]
    /\ UNCHANGED <<pc, req, cmd, queue, owner, timeout, reads, rid, behind,
                   okReads, last, props, notes, platform>>

\* ---------------------------------------------------------------- commands
\* A handler that does not fetch runs to its throw or to its command.
Direct(p, request) ==
    /\ pc[p] = "idle"
    /\ request.kind \in DirectKinds
    /\ pc' = [pc EXCEPT ![p] = PcAfter(DirectBody(request))]
    /\ Proceed(p, request, DirectBody(request))
    /\ last' = [pid |-> p, path |-> "direct", fetch |-> "none",
                value |-> DirectBody(request).value,
                seen |-> 0, issued |-> 0, behind |-> 0, fresh |-> TRUE,
                kind |-> request.kind, arg |-> request.value,
                num |-> DirectBody(request).num,
                command |-> DirectBody(request).command]
    /\ UNCHANGED <<waited, queue, owner, cache, timeout, reads, rid, behind,
                   okReads, props, notes, platform>>

CacheAfterCommandWrong == [traits |-> Null, characrestics |-> Null, age |-> 0]

\* executeCommand reads and writes nothing of this.cache.
CacheAfterCommand == cache

\* The command of p is over, and the handler with it.
CommandOver(p, path, value) ==
    /\ pc[p] = "commanding"
    /\ Granted = {}
    /\ pc' = [pc EXCEPT ![p] = "idle"]
    /\ req' = [req EXCEPT ![p] = NoRequest]
    /\ cmd' = [cmd EXCEPT ![p] = NoCommand]
    /\ last' = [pid |-> p, path |-> path, fetch |-> "none", value |-> value,
                seen |-> 0, issued |-> 0, behind |-> 0, fresh |-> TRUE,
                kind |-> req[p].kind, arg |-> req[p].value,
                num |-> Absent, command |-> cmd[p]]
    /\ cache' = CacheAfterCommand
    /\ UNCHANGED <<waited, queue, owner, timeout, reads, rid, behind,
                   okReads, props, notes, platform>>

\* gapi.enterprises.devices.executeCommand answers with status 200.
CommandOk(p) == CommandOver(p, "commandOk", "void")

NonOkStatusWrong == "SERVICE_COMMUNICATION_FAILURE"

\* It answers with another status: the response is logged and
\* executeCommand returns.
NonOkStatus == "void"

CommandFailed(p) == CommandOver(p, "commandFailed", NonOkStatus)

\* It raises: nothing catches the error, which leaves the handler.
CommandRaised(p) == CommandOver(p, "commandRaised", "TRANSPORT_ERROR")

Next ==
    \/ \E p \in Procs : Call(p, HvacRequest)
    \/ \E p \in Procs : AcquireTimeout(p)
    \/ \E p \in Procs : CacheHit(p)
    \/ \E p \in Procs : CacheMiss(p)
    \/ \E p \in Procs, device \in Devices : ReadOk(p, device)
    \/ \E p \in Procs : ReadFailed(p)
    \/ \E p \in Procs : ReadRaised(p)
    \/ \E d \in TickSteps : Tick(d)

Spec == Init /\ [][Next]_vars

\* ----------------------------------------------------------------- progress
\* The documents the reads of the progress specification answer with.
LiveDevices ==
    {device \in Devices :
        /\ device.Connectivity \in [status : {"ONLINE", "OFFLINE"}]
        /\ device.ThermostatHvac = [status |-> "HEATING"]}

\* Time passes there in steps of the longer budget, which ends every wait
\* for the lock and every 5 s budget.
LiveSteps == {seconds(OfflineSeconds)}

\* The read of p responds, with some status, or raises.
ReadEnds(p) ==
    \/ \E device \in LiveDevices : ReadOk(p, device)
    \/ ReadFailed(p)
    \/ ReadRaised(p)

NextLive ==
    \/ \E p \in Procs : Call(p, HvacRequest)
    \/ \E p \in Procs : AcquireTimeout(p)
    \/ \E p \in Procs : CacheHit(p)
    \/ \E p \in Procs : CacheMiss(p)
    \/ \E p \in Procs : ReadEnds(p)
    \/ \E d \in LiveSteps : Tick(d)

\* The scheduling fetch() relies on: a continuation that was handed the lock
\* runs, a remote read responds or raises, a started timer fires, and time
\* passes.
Fairness ==
    /\ \A p \in Procs : WF_vars(CacheHit(p))
    /\ \A p \in Procs : WF_vars(CacheMiss(p))
    /\ \A p \in Procs : WF_vars(ReadEnds(p))
    /\ \A p \in Procs : WF_vars(AcquireTimeout(p))
    /\ WF_vars(\E d \in LiveSteps : Tick(d))

SpecLive == Init /\ [][NextLive]_vars /\ Fairness

\* ------------------------------------------------- the handlers' documents
\* A thermostat in range mode, every trait group present.
AllModes == {"HEAT", "COOL", "HEATCOOL", "OFF"}

BaseDevice ==
    [Connectivity |-> [status |-> "ONLINE"],
     ThermostatHvac |-> [status |-> "HEATING"],
     ThermostatEco |-> [mode |-> "OFF"],
     Temperature |-> [ambientTemperatureCelsius |-> Some(21)],
     ThermostatMode |-> [mode |-> "HEATCOOL", availableModes |-> Some(AllModes)],
     Settings |-> [temperatureScale |-> "CELSIUS"],
     ThermostatTemperatureSetpoint |->
         [heatCelsius |-> Some(20), coolCelsius |-> Some(24)],
     Humidity |-> [ambientHumidityPercent |-> Some(40)]]

EcoGroups == {NoGroup} \cup [mode : {"OFF", "MANUAL_ECO", Undefined}]

AvailableModes == {Absent, Some({}), Some({"HEAT", "OFF"}), Some(AllModes)}

ModeGroups ==
    {NoGroup} \cup
    [mode : AllModes \cup {Undefined}, availableModes : {Some(AllModes)}]

SetpointGroups ==
    {NoGroup} \cup
    [heatCelsius : {Absent, Some(0), Some(20)},
     coolCelsius : {Absent, Some(0), Some(24)}]

TemperatureGroups ==
    {NoGroup} \cup
    [ambientTemperatureCelsius : {Absent, Some(0), Some(21), Some(22), Some(23)}]

HumidityGroups ==
    {NoGroup} \cup [ambientHumidityPercent : {Absent, Some(0), Some(40)}]

SettingsGroups ==
    {NoGroup} \cup [temperatureScale : {"CELSIUS", "FAHRENHEIT", Undefined}]

HvacGroups ==
    {NoGroup} \cup [status : {"HEATING", "COOLING", "OFF", Undefined}]

\* The documents a read may return to a handler: the base document with
\* one or two of its trait groups varied.
HandlerDevices ==
    {[BaseDevice EXCEPT !.ThermostatEco = eco,
                        !.ThermostatMode.availableModes = available] :
        eco \in EcoGroups, available \in AvailableModes}
    \cup
    {[BaseDevice EXCEPT !.ThermostatEco = eco,
                        !.ThermostatMode = mode,
                        !.ThermostatTemperatureSetpoint = setpoint] :
        eco \in [mode : {"OFF", "MANUAL_ECO"}],
        mode \in ModeGroups,
        setpoint \in {g \in SetpointGroups :
                         g = NoGroup \/ Some(0) \notin {g.heatCelsius, g.coolCelsius}}}
    \cup
    {[BaseDevice EXCEPT !.ThermostatTemperatureSetpoint = setpoint,
                        !.Temperature = temperature] :
        setpoint \in SetpointGroups,
        temperature \in [ambientTemperatureCelsius : {Some(0), Some(22)}]}
    \cup
    {[BaseDevice EXCEPT !.Temperature = temperature] :
        temperature \in TemperatureGroups}
    \cup
    {[BaseDevice EXCEPT !.Humidity = humidity] : humidity \in HumidityGroups}
    \cup
    {[BaseDevice EXCEPT !.Settings = settings] : settings \in SettingsGroups}
    \cup
    {[BaseDevice EXCEPT !.ThermostatHvac = hvac] : hvac \in HvacGroups}
    \cup
    {[BaseDevice EXCEPT !.Connectivity = connectivity] :
        connectivity \in Group(ConnectivityValues)}

\* The values the home hub writes: the valid target states, a cooling
\* threshold above and a heating threshold below the base setpoints, the
\* two On values.
WrittenValues(kind) ==
    CASE kind = "TargetHeatingCoolingStateSet" -> validValues
      [] kind = "CoolingThresholdTemperatureSet" -> {25}
      [] kind \in {"HeatingThresholdTemperatureSet", "TargetTemperatureSet"} ->
             {19}
      [] kind = "EcoSwitchSet" -> {0, 1}
      [] kind = "TemperatureDisplayUnitsSet" -> {1}
      [] OTHER -> {0}

HandlerRequests ==
    {request \in [kind : FetchKinds \cup DirectKinds, value : 0..25] :
        request.value \in WrittenValues(request.kind)}

\* The hub's requests are taken one at a time here.
HandlerProcs == {p \in Procs : p <= 1}

NextH ==
    \/ \E p \in HandlerProcs, request \in HandlerRequests : Call(p, request)
    \/ \E p \in HandlerProcs, request \in HandlerRequests : Direct(p, request)
    \/ \E p \in HandlerProcs : CacheHit(p)
    \/ \E p \in HandlerProcs : CacheMiss(p)
    \/ \E p \in HandlerProcs, device \in HandlerDevices : ReadOk(p, device)
    \/ \E p \in HandlerProcs : ReadFailed(p)
    \/ \E p \in HandlerProcs : ReadRaised(p)
    \/ \E p \in HandlerProcs : CommandOk(p)
    \/ \E p \in HandlerProcs : CommandFailed(p)
    \/ \E p \in HandlerProcs : CommandRaised(p)

SpecH == Init /\ [][NextH]_vars

\* --------------------------------------------- the display unit over time
\* The documents of successive refreshes: the display unit and the
\* connectivity vary.
UnitDevices ==
    {[BaseDevice EXCEPT !.Settings = settings, !.Connectivity = connectivity] :
        settings \in SettingsGroups,
        connectivity \in [status : {"ONLINE", "OFFLINE"}]}

UnitRequest == [kind |-> "TemperatureDisplayUnitsGet", value |-> 0]

NextU ==
    \/ \E p \in Procs : Call(p, UnitRequest)
    \/ \E p \in Procs : AcquireTimeout(p)
    \/ \E p \in Procs : CacheHit(p)
    \/ \E p \in Procs : CacheMiss(p)
    \/ \E p \in Procs, device \in UnitDevices : ReadOk(p, device)
    \/ \E p \in Procs : ReadFailed(p)
    \/ \E p \in Procs : ReadRaised(p)
    \/ \E d \in TickSteps : Tick(d)

SpecU == Init /\ [][NextU]_vars

\* ------------------------------------------------- the Cache-class variant
\* An earlier GoogleNestThermostatApi keeps its entry in a Cache object:
\* `traits' and `characrestics' start undefined, `timestamp' is the time of
\* construction and the timeout stays at seconds(5).
UndefinedTraits == [undefined |-> TRUE]

EmptyCache == [traits |-> UndefinedTraits, characrestics |-> Null, age |-> 0]

InitCache ==
    /\ pc = [p \in Procs |-> "idle"]
    /\ req = [p \in Procs |-> NoRequest]
    /\ cmd = [p \in Procs |-> NoCommand]
    /\ waited = [p \in Procs |-> 0]
    /\ queue = <<>>
    /\ owner = 0
    /\ cache = EmptyCache
    /\ timeout = seconds(NominalSeconds)
    /\ reads = 0
    /\ rid = [p \in Procs |-> 0]
    /\ behind = [p \in Procs |-> 0]
    /\ okReads = {}
    /\ last = NoCall
    /\ props = NoProps
    /\ notes = <<>>
    /\ platform = NewPlatform

\* Cache.isAlive(): traits !== null holds of undefined too.
isAlive == cache.traits # Null /\ cache.age <= timeout

\* Cache.getTraits()?.displayUnit
getTraitsUnit ==
    IF cache.traits = UndefinedTraits THEN Undefined ELSE cache.traits.displayUnit

\* Cache.getCharacrestics(): the error callback throws when there is no
\* accessor.
getCharacrestics(entry) ==
    IF entry.characrestics = Null
    THEN "SERVICE_COMMUNICATION_FAILURE" ELSE "accessor"

\* save(traits) up to Cache.set: an OFFLINE document is stored without
\* accessor.
CacheSet(traits) ==
    [traits |-> traits,
     characrestics |-> IF traits.connectivity = "OFFLINE"
                       THEN Null ELSE NewCharacteristics(traits),
     age |-> 0]

\* The end of fetch() on `entry': the lock is released and
\* getCharacrestics() returns or throws.
CacheReturn(p, path, fetch, entry) ==
    /\ Release(p, PcAfter(Outcome(p, fetch, entry.characrestics)))
    /\ Finish(p, path, fetch, entry.characrestics, TRUE)

CacheClassHit(p) ==
    /\ pc[p] = "granted"
    /\ isAlive
    /\ CacheReturn(p, "hit", getCharacrestics(cache), cache)
    /\ UNCHANGED <<cache, timeout, reads, okReads, props, notes, platform>>

CacheClassMiss(p) ==
    /\ pc[p] = "granted"
    /\ ~isAlive
    /\ reads < MaxReads
    /\ reads' = reads + 1
    /\ rid' = [rid EXCEPT ![p] = reads + 1]
    /\ pc' = [pc EXCEPT ![p] = "reading"]
    /\ UNCHANGED <<req, cmd, waited, queue, owner, cache, timeout, behind,
                   okReads, last, props, notes, platform>>

CacheClassReadOk(p, device) ==
    /\ pc[p] = "reading"
    /\ Granted = {}
    /\ IF /\ getTraitsUnit # deviceToTraits(device, rid[p]).displayUnit
          /\ deviceToTraits(device, rid[p]).displayUnit # Undefined
       THEN /\ props' = onDisplayUnit(deviceToTraits(device, rid[p]).displayUnit)
            /\ notes' = Append(notes, deviceToTraits(device, rid[p]).displayUnit)
       ELSE UNCHANGED <<props, notes>>
    /\ cache' = CacheSet(deviceToTraits(device, rid[p]))
    /\ okReads' = okReads \cup {rid[p]}
    /\ CacheReturn(p, "refreshed", getCharacrestics(cache'), cache')
    /\ UNCHANGED <<timeout, reads, platform>>

\* A status other than 200: !this.cache.getTraits() throws, else the entry
\* is kept.
CacheClassReadFailed(p) ==
    /\ pc[p] = "reading"
    /\ Granted = {}
    /\ CacheReturn(p, "failed",
                   IF cache.traits = UndefinedTraits
                   THEN "SERVICE_COMMUNICATION_FAILURE"
                   ELSE getCharacrestics(cache),
                   cache)
    /\ UNCHANGED <<cache, timeout, reads, okReads, props, notes, platform>>

NextCache ==
    \/ \E p \in Procs : Call(p, HvacRequest)
    \/ \E p \in Procs : AcquireTimeout(p)
    \/ \E p \in Procs : CacheClassHit(p)
    \/ \E p \in Procs : CacheClassMiss(p)
    \/ \E p \in Procs, device \in Devices : CacheClassReadOk(p, device)
    \/ \E p \in Procs : CacheClassReadFailed(p)
    \/ \E p \in Procs : ReadRaised(p)
    \/ \E d \in TickSteps : Tick(d)

SpecCache == InitCache /\ [][NextCache]_vars

\* ---------------------------------------------------------------- discovery
apiVars ==
    <<pc, req, cmd, waited, queue, owner, cache, timeout, reads, rid, behind,
      okReads, last, props, notes>>

\* configureAccessory(accessory): homebridge restores a cached accessory,
\* each of them once, before didFinishLaunching.
configureAccessory(accessory) ==
    /\ platform.phase = "restoring"
    /\ existingAccessory(platform, accessory.UUID) = {}
    /\ platform' = [platform EXCEPT !.accessories = Append(@, accessory),
                                    !.cached = TRUE]
    /\ UNCHANGED apiVars

\* didFinishLaunching: discoverDevices() asks for the device list.
didFinishLaunching ==
    /\ platform.phase = "restoring"
    /\ platform' = [platform EXCEPT !.phase = "listing"]
    /\ UNCHANGED apiVars

\* The list arrives: the callback of discoverDevices runs to its end.
discoverDevices(devices) ==
    /\ platform.phase = "listing"
    /\ platform' =
           discoverEach([platform EXCEPT
                           !.phase = "done",
                           !.listed = devices,
                           !.unregistered = Unregistered(platform, devices)],
                        devices)
    /\ UNCHANGED apiVars

\* The list request is rejected: nothing handles the rejection.
listRejected ==
    /\ platform.phase = "listing"
    /\ platform' = [platform EXCEPT !.phase = "rejected"]
    /\ UNCHANGED apiVars

NextPlatform ==
    \/ \E name \in DeviceNames : configureAccessory(Restored(name))
    \/ didFinishLaunching
    \/ \E devices \in DeviceLists : discoverDevices(devices)
    \/ listRejected

SpecPlatform == Init /\ [][NextPlatform]_vars

\* ------------------------------------------------------------------ claims
Reading == {p \in Procs : pc[p] = "reading"}

Busy == "RESOURCE_BUSY"
CommFailure == "SERVICE_COMMUNICATION_FAILURE"
HeatingCoolingValues == {"HEAT", "COOL", "OFF"}

\* C1: at most one remote device read is in flight at any moment, whatever
\* the interleaving of the fetch() calls.
C1_OneReadInFlight == Cardinality(Reading) <= 1

C1_Witness == \E p, q \in Procs : pc[p] = "reading" /\ pc[q] = "waiting"

\* C2 as stated: every call issued while a read is in flight triggers no
\* read of its own and observes the snapshot of that read.
C2_AsStated ==
    last.behind # 0 => (last.issued = 0 /\ last.seen = last.behind)

\* C2, amended: a call issued while a read is in flight, when that read
\* returns status 200 and the call gets the lock before its 500 ms timer
\* fires, triggers no read of its own and is served, by a cache hit, the
\* snapshot that read stored.
C2_SingleFlight ==
    (last.behind # 0 /\ last.behind \in okReads /\ last.fetch # Busy)
        => (last.issued = 0 /\ last.path = "hit" /\ last.seen = last.behind)

C2_Witness ==
    /\ last.behind # 0
    /\ last.behind \in okReads
    /\ last.path = "hit"
    /\ last.fetch = "accessor"
    /\ last.seen = last.behind

\* C3: a call that starts on an empty cache issues exactly one remote read,
\* and a call that gets the lock while an entry exists whose age is within
\* the staleness budget issues none and completes on the cached entry, so
\* the two calls together trigger one read.
C3_CacheHit ==
    [][\A p \in Procs :
          (pc[p] = "granted" /\ pc'[p] # "granted")
              => /\ cache.traits = Null
                     => (reads' = reads + 1 /\ pc'[p] = "reading")
                 /\ (cache.traits # Null /\ cache.age <= timeout)
                     => /\ reads' = reads
                        /\ pc'[p] = "idle"
                        /\ cache' = cache
                        /\ last'.pid = p
                        /\ last'.issued = 0
                        /\ last'.seen = cache.traits.read]_vars

C3_Witness ==
    /\ reads = 1
    /\ last.path = "hit"
    /\ last.fetch = "accessor"
    /\ last.seen = 1
    /\ cache.age = timeout

\* C4: fetch() returns no Accessor while the cached entry is OFFLINE, and a
\* call that ends, by a cache hit, a successful refresh or a refresh with a
\* non-OK status, on an OFFLINE entry fails with
\* SERVICE_COMMUNICATION_FAILURE.
C4_NoAccessorWhileOffline ==
    /\ last.fetch = "accessor" => ConnectivityOf(cache.traits) # "OFFLINE"
    /\ (last.path \in {"hit", "refreshed", "failed"}
            /\ ConnectivityOf(cache.traits) = "OFFLINE")
        => last.fetch = CommFailure

C4_Witness ==
    /\ last.path = "failed"
    /\ ConnectivityOf(cache.traits) = "OFFLINE"
    /\ last.fetch = CommFailure

C6_Backoff ==
    last.path = "refreshed"
        => /\ ConnectivityOf(cache.traits) = "OFFLINE" => timeout = 30000
           /\ ConnectivityOf(cache.traits) = "ONLINE" => timeout = 5000

C6_Witness ==
    /\ last.path = "refreshed"
    /\ ConnectivityOf(cache.traits) = "OFFLINE"
    /\ timeout = 30000
    /\ reads >= 2

\* C7: a call leaves the lock's queue only once it has waited the 500 ms,
\* and then fails with RESOURCE_BUSY having issued no remote read and
\* changed neither the cache nor the timeout.
C7_ResourceBusy ==
    [][\A p \in Procs :
          (pc[p] = "waiting" /\ pc'[p] = "idle")
              => /\ waited[p] >= 500
                 /\ last'.pid = p
                 /\ last'.fetch = Busy
                 /\ last'.issued = 0
                 /\ reads' = reads
                 /\ cache' = cache
                 /\ timeout' = timeout]_vars

C7_Witness ==
    /\ last.fetch = Busy
    /\ \E p \in Procs : pc[p] = "reading"

\* C8: when a remote read returns a non-OK status, an existing entry is
\* kept unchanged and, unless it is OFFLINE, its Accessor is returned;
\* without an entry the call fails with SERVICE_COMMUNICATION_FAILURE.
C8_FailedReadKeepsEntry ==
    [][\A p \in Procs :
          (pc[p] = "reading" /\ pc'[p] = "idle" /\ last'.path = "failed")
              => /\ cache' = cache
                 /\ cache.traits = Null => last'.fetch = CommFailure
                 /\ (cache.traits # Null /\ ConnectivityOf(cache.traits) # "OFFLINE")
                        => /\ last'.fetch = "accessor"
                           /\ last'.seen = cache.traits.read]_vars

C8_Witness ==
    /\ last.path = "failed"
    /\ last.fetch = "accessor"
    /\ last.seen # last.issued

\* C9 as stated: when the remote read raises, a prior snapshot that is not
\* OFFLINE is returned, and without a prior snapshot the call fails with
\* SERVICE_COMMUNICATION_FAILURE.
C9_TransportErrorAbsorbed ==
    last.path = "raised"
        => /\ (cache.traits # Null /\ ConnectivityOf(cache.traits) # "OFFLINE")
                  => last.fetch = "accessor"
           /\ cache.traits = Null => last.fetch = CommFailure

\* C10 as stated: every Accessor fetch() returns wraps a snapshot whose age
\* at the return is at most the staleness budget.
C10_AsStated == last.fetch = "accessor" => last.fresh

\* C10, amended: an Accessor returned by a cache hit or by a status-200
\* refresh wraps a snapshot whose age at the return is at most the budget;
\* an Accessor returned after a read with a non-OK status wraps the prior
\* snapshot, which is then older than the budget.
C10_BoundedStaleness ==
    last.fetch = "accessor"
        => /\ last.path \in {"hit", "refreshed", "failed"}
           /\ last.fresh <=> last.path # "failed"

C10_Witness ==
    /\ last.fetch = "accessor"
    /\ last.path = "hit"
    /\ last.fresh
    /\ cache.age > 0

\* ------------------------------------------------------- handler claims
\* The fetch() of p ends in this step, and its handler's code after it.
FetchEnds(p) ==
    /\ pc[p] \in {"granted", "reading"}
    /\ pc'[p] \in {"idle", "commanding"}

\* The command of p ends in this step.
CommandEnds(p) == pc[p] = "commanding" /\ pc'[p] = "idle"

\* A handler that does not fetch runs for p in this step.
DirectRuns(p, kind) ==
    /\ last' # last
    /\ last'.path = "direct"
    /\ last'.pid = p
    /\ last'.kind = kind

TraitOf(entry, name, undefined) ==
    IF entry.traits = Null THEN undefined ELSE entry.traits[name]

GatedKinds ==
    {"TargetHeatingCoolingStateSet", "CoolingThresholdTemperatureSet",
     "HeatingThresholdTemperatureSet"}

EcoSetMode == "sdm.devices.commands.ThermostatEco.SetMode"

\* C11, first half: a target-mode, cooling-threshold or heating-threshold
\* write whose snapshot has ecoMode MANUAL_ECO fails with
\* NOT_ALLOWED_IN_CURRENT_STATE, whatever the written mode, and issues no
\* remote command.
C11_Gated(p) ==
    (/\ FetchEnds(p)
     /\ req[p].kind \in GatedKinds
     /\ last'.fetch = "accessor"
     /\ TraitOf(cache', "ecoMode", Undefined) = "MANUAL_ECO")
    => /\ last'.value = "NOT_ALLOWED_IN_CURRENT_STATE"
       /\ pc'[p] = "idle"
       /\ cmd'[p] = NoCommand

C11_EcoGating == [][\A p \in Procs : C11_Gated(p)]_vars

\* C11, second half: with ecoMode MANUAL_ECO in the snapshot an eco-switch
\* write still issues ThermostatEco.SetMode and succeeds.
C11_EcoSwitch(p) ==
    /\ (DirectRuns(p, "EcoSwitchSet")
        /\ TraitOf(cache, "ecoMode", Undefined) = "MANUAL_ECO")
       => /\ pc'[p] = "commanding"
          /\ cmd'[p].name = EcoSetMode
    /\ (CommandEnds(p) /\ req[p].kind = "EcoSwitchSet"
        /\ TraitOf(cache, "ecoMode", Undefined) = "MANUAL_ECO")
       => last'.value = "void"

\* C11 (eco gating): while the snapshot's ecoMode is MANUAL_ECO, target-mode,
\* cooling-threshold and heating-threshold writes fail with
\* NOT_ALLOWED_IN_CURRENT_STATE before any mode validation and issue no
\* remote command, and an eco-switch write still succeeds and issues
\* ThermostatEco.SetMode.
C11_AsStated == [][\A p \in Procs : C11_Gated(p) /\ C11_EcoSwitch(p)]_vars

\* A gated write was refused although its mode is not an available one.
C11_Witness ==
    /\ last.kind = "TargetHeatingCoolingStateSet"
    /\ last.fetch = "accessor"
    /\ last.value = "NOT_ALLOWED_IN_CURRENT_STATE"
    /\ TraitOf(cache, "ecoMode", Undefined) = "MANUAL_ECO"
    /\ TraitOf(cache, "availableTargetModes", Absent) = Some({})

\* The target state a read of the target mode returns once the snapshot
\* carries `mode'.
ReadBack(mode) ==
    handleTargetHeatingCoolingStateGet(
        NewCharacteristics([cache.traits EXCEPT !.targetMode = mode])).num

SetModeIssued ==
    /\ last.kind = "TargetHeatingCoolingStateSet"
    /\ last.command # NoCommand

\* C12 (mode round trip): the mode a target-mode write of OFF, HEAT, COOL or
\* AUTO sends to the device (AUTO as HEATCOOL), read back through the
\* target-mode read mapping, is the value that was written.
C12_ModeRoundTrip ==
    SetModeIssued
    => /\ last.arg \in validValues
       /\ ReadBack(last.command.params.mode) = Some(last.arg)

\* AUTO was written, sent as HEATCOOL, and the command completed.
C12_Witness ==
    /\ SetModeIssued
    /\ last.path = "commandOk"
    /\ last.arg = TargetAUTO
    /\ last.command.params.mode = "HEATCOOL"

PresentEco(entry) ==
    TraitOf(entry, "ecoMode", Undefined) \notin {Undefined, "MANUAL_ECO"}

SetMode(mode) ==
    [name |-> "sdm.devices.commands.ThermostatMode.SetMode",
     params |-> [mode |-> mode]]

\* The target-mode write of p passes the eco gate on a snapshot that lists
\* the available modes.
C13_Validated(p) ==
    /\ FetchEnds(p)
    /\ req[p].kind = "TargetHeatingCoolingStateSet"
    /\ last'.fetch = "accessor"
    /\ PresentEco(cache')
    /\ TraitOf(cache', "availableTargetModes", Absent) # Absent

\* C13 (mode validation): a target-mode write on a snapshot whose ecoMode is
\* not MANUAL_ECO fails with INVALID_VALUE_IN_REQUEST and issues no command
\* when the remote mode it maps to is not in the snapshot's
\* availableTargetModes; when it is, the handler issues one
\* ThermostatMode.SetMode command carrying that mode.
C13_ModeValidation ==
    [][\A p \in Procs :
         C13_Validated(p)
         => IF valueToMode(req[p].value) \in cache'.traits.availableTargetModes[1]
            THEN /\ pc'[p] = "commanding"
                 /\ cmd'[p] = SetMode(valueToMode(req[p].value))
                 /\ last'.command = cmd'[p]
            ELSE /\ last'.value = "INVALID_VALUE_IN_REQUEST"
                 /\ pc'[p] = "idle"
                 /\ cmd'[p] = NoCommand]_vars

\* COOL was written to a thermostat that offers HEAT and OFF only.
C13_Witness ==
    /\ last.kind = "TargetHeatingCoolingStateSet"
    /\ last.arg = TargetCOOL
    /\ last.value = "INVALID_VALUE_IN_REQUEST"
    /\ TraitOf(cache, "availableTargetModes", Absent) = Some({"HEAT", "OFF"})
    /\ PresentEco(cache)

SetpointName(command) ==
    "sdm.devices.commands.ThermostatTemperatureSetpoint." \o command

\* The threshold write `kind' of p passes the eco gate on a snapshot whose
\* target mode is `mode'.
ThresholdWrite(p, kind, mode) ==
    /\ FetchEnds(p)
    /\ req[p].kind = kind
    /\ last'.fetch = "accessor"
    /\ PresentEco(cache')
    /\ TraitOf(cache', "targetMode", Undefined) = mode

\* The setpoint the snapshot holds for `name', undefined included.
Existing(entry, name) == entry.traits.temperatureSetpoint[name]

HasSetpoints(entry) ==
    TraitOf(entry, "temperatureSetpoint", NoGroup) # NoGroup

\* C14 (threshold write mapping): a cooling-threshold write of v sends
\* SetCool{coolCelsius: v} in mode COOL and SetRange{heatCelsius: the
\* snapshot's heat setpoint, coolCelsius: v} in mode HEATCOOL; a
\* heating-threshold write of v sends SetHeat{heatCelsius: v} in mode HEAT and
\* SetRange{heatCelsius: v, coolCelsius: the snapshot's cool setpoint} in mode
\* HEATCOOL.
C14_ThresholdCommands ==
    [][\A p \in Procs :
         /\ ThresholdWrite(p, "CoolingThresholdTemperatureSet", "COOL")
            => cmd'[p] = [name |-> SetpointName("SetCool"),
                          params |-> [coolCelsius |-> Some(req[p].value)]]
         /\ (ThresholdWrite(p, "CoolingThresholdTemperatureSet", "HEATCOOL")
             /\ HasSetpoints(cache'))
            => cmd'[p] = [name |-> SetpointName("SetRange"),
                          params |-> [heatCelsius |-> Existing(cache', "heatCelsius"),
                                      coolCelsius |-> Some(req[p].value)]]
         /\ ThresholdWrite(p, "HeatingThresholdTemperatureSet", "HEAT")
            => cmd'[p] = [name |-> SetpointName("SetHeat"),
                          params |-> [heatCelsius |-> Some(req[p].value)]]
         /\ (ThresholdWrite(p, "HeatingThresholdTemperatureSet", "HEATCOOL")
             /\ HasSetpoints(cache'))
            => cmd'[p] = [name |-> SetpointName("SetRange"),
                          params |-> [heatCelsius |-> Some(req[p].value),
                                      coolCelsius |-> Existing(cache', "coolCelsius")]]
    ]_vars

\* In range mode with setpoints 20 and 24, a cooling threshold of 25 was
\* written and sent with the heat setpoint 20.
C14_Witness ==
    /\ last.kind = "CoolingThresholdTemperatureSet"
    /\ last.path = "commandOk"
    /\ last.command.name = SetpointName("SetRange")
    /\ last.command.params = [heatCelsius |-> Some(20), coolCelsius |-> Some(25)]

\* The threshold write `kind' of p runs on a snapshot that carries an eco
\* mode and a target mode outside `modes'.
WrongMode(p, kind, modes) ==
    /\ FetchEnds(p)
    /\ req[p].kind = kind
    /\ last'.fetch = "accessor"
    /\ TraitOf(cache', "ecoMode", Undefined) # Undefined
    /\ TraitOf(cache', "targetMode", Undefined) \notin modes \cup {Undefined}

\* C15 (threshold mode check): a cooling-threshold write while the
\* snapshot's target mode is neither COOL nor HEATCOOL, and a
\* heating-threshold write while it is neither HEAT nor HEATCOOL, fail with
\* NOT_ALLOWED_IN_CURRENT_STATE and issue no remote command.
C15_ThresholdModeCheck ==
    [][\A p \in Procs :
         (\/ WrongMode(p, "CoolingThresholdTemperatureSet", {"COOL", "HEATCOOL"})
          \/ WrongMode(p, "HeatingThresholdTemperatureSet", {"HEAT", "HEATCOOL"}))
         => /\ last'.value = "NOT_ALLOWED_IN_CURRENT_STATE"
            /\ pc'[p] = "idle"
            /\ cmd'[p] = NoCommand]_vars

\* A cooling threshold was written in mode HEAT, eco mode off, and refused.
C15_Witness ==
    /\ last.kind = "CoolingThresholdTemperatureSet"
    /\ last.value = "NOT_ALLOWED_IN_CURRENT_STATE"
    /\ TraitOf(cache, "targetMode", Undefined) = "HEAT"
    /\ TraitOf(cache, "ecoMode", Undefined) = "OFF"

Abs(x) == IF x < 0 THEN -x ELSE x

\* Of two setpoints the one closer to the ambient temperature, heat on a tie.
Closer(temp, heat, cool) ==
    IF Abs(temp[1] - heat[1]) <= Abs(temp[1] - cool[1]) THEN heat ELSE cool

Truthy(x) == x \notin {Absent, Some(0)}

\* The read `kind' of p ends on a snapshot that carries the setpoint group.
SetpointRead(p, kind) ==
    /\ FetchEnds(p)
    /\ req[p].kind = kind
    /\ last'.fetch = "accessor"
    /\ HasSetpoints(cache')

\* C16 (closer setpoint): when the snapshot holds both a heat and a cool
\* setpoint, and an ambient temperature, the target-temperature read returns
\* the setpoint closer to the ambient temperature, the heat setpoint on a
\* tie. (Setpoints and temperature are taken non-zero here: zero is the case
\* of C20.)
C16_AsStated ==
    [][\A p \in Procs :
         (/\ SetpointRead(p, "TargetTemperatureGet")
          /\ Truthy(Existing(cache', "heatCelsius"))
          /\ Truthy(Existing(cache', "coolCelsius"))
          /\ Truthy(cache'.traits.currentTemperature))
         => /\ last'.value = "number"
            /\ last'.num = Closer(cache'.traits.currentTemperature,
                                   Existing(cache', "heatCelsius"),
                                   Existing(cache', "coolCelsius"))]_vars

\* With setpoints 20 and 24 and 21 degrees in the room, the read returned 21,
\* which is neither setpoint.
C16_Witness ==
    /\ last.kind = "TargetTemperatureGet"
    /\ last.fetch = "accessor"
    /\ last.num = Some(21)
    /\ HasSetpoints(cache)
    /\ Existing(cache, "heatCelsius") = Some(20)
    /\ Existing(cache, "coolCelsius") = Some(24)

SetpointReads ==
    {"TargetTemperatureGet", "CoolingThresholdTemperatureGet",
     "HeatingThresholdTemperatureGet"}

\* The one setpoint the snapshot holds, when it holds exactly one.
OnlySetpoint(entry) ==
    IF Existing(entry, "coolCelsius") = Absent
    THEN Existing(entry, "heatCelsius")
    ELSE Existing(entry, "coolCelsius")

ExactlyOne(entry) ==
    (Existing(entry, "heatCelsius") = Absent)
        # (Existing(entry, "coolCelsius") = Absent)

\* The three reads return the only setpoint of the snapshot (one other than
\* 0, if `nonzero').
C17_Fallback(p, nonzero) ==
    \A kind \in SetpointReads :
        (/\ SetpointRead(p, kind)
         /\ ExactlyOne(cache')
         /\ nonzero => Truthy(OnlySetpoint(cache')))
        => /\ last'.value = "number"
           /\ last'.num = OnlySetpoint(cache')

\* C17 (threshold fallback): when the snapshot holds exactly one of the heat
\* and cool setpoints, the target-temperature read, the cooling-threshold
\* read and the heating-threshold read all return that setpoint.
C17_AsStated == [][\A p \in Procs : C17_Fallback(p, FALSE)]_vars

\* The same for a setpoint other than 0.
C17_NonZero == [][\A p \in Procs : C17_Fallback(p, TRUE)]_vars

\* Only the heat setpoint, 20, is present and the cooling-threshold read
\* returned it.
C17_Witness ==
    /\ last.kind = "CoolingThresholdTemperatureGet"
    /\ last.fetch = "accessor"
    /\ HasSetpoints(cache)
    /\ Existing(cache, "coolCelsius") = Absent
    /\ Existing(cache, "heatCelsius") = Some(20)
    /\ last.num = Some(20)

ReadOnlyKinds == {"TargetTemperatureSet", "TemperatureDisplayUnitsSet"}

\* C18 (read-only characteristics): a target-temperature write and a
\* display-unit write fail with READ_ONLY_CHARACTERISTIC in every state and
\* for every value, without a remote read, without touching the lock and
\* without a remote command.
C18_ReadOnly ==
    [][\A p \in Procs, kind \in ReadOnlyKinds :
         DirectRuns(p, kind)
         => /\ last'.value = "READ_ONLY_CHARACTERISTIC"
            /\ pc'[p] = "idle"
            /\ cmd' = cmd
            /\ <<reads, rid, okReads, cache>>' = <<reads, rid, okReads, cache>>
            /\ <<owner, queue, waited>>' = <<owner, queue, waited>>]_vars

\* A target temperature was written while a snapshot was cached, and refused.
C18_Witness ==
    /\ last.kind = "TargetTemperatureSet"
    /\ last.path = "direct"
    /\ last.value = "READ_ONLY_CHARACTERISTIC"
    /\ cache.traits # Null

\* The field the handler `kind' gets first from the accessor.
FirstField(kind) ==
    CASE kind = "CurrentHeatingCoolingStateGet" -> "hvacStatus"
      [] kind = "TargetHeatingCoolingStateGet" -> "targetMode"
      [] kind = "CurrentTemperatureGet" -> "currentTemperature"
      [] kind = "TemperatureDisplayUnitsGet" -> "displayUnit"
      [] kind = "CurrentRelativeHumidityGet" -> "relativeHumidity"
      [] kind \in SetpointReads -> "temperatureSetpoint"
      [] OTHER -> "ecoMode"

\* The field is not in the snapshot.
UndefinedOf(name) ==
    CASE name \in NumberFields \cup {"availableTargetModes"} -> Absent
      [] name = "temperatureSetpoint" -> NoGroup
      [] OTHER -> Undefined

IsAbsent(entry, name) == entry.traits[name] = UndefinedOf(name)

\* The handler of p ends, on a fetched snapshot, in RESOURCE_DOES_NOT_EXIST
\* and without a command.
DoesNotExist(p) ==
    /\ last'.value = "RESOURCE_DOES_NOT_EXIST"
    /\ last'.num = Absent
    /\ pc'[p] = "idle"
    /\ cmd'[p] = NoCommand

\* C19 (absent fields): a handler that gets a field absent from the snapshot
\* fails with RESOURCE_DOES_NOT_EXIST and returns no value. This holds for
\* the eight getters: the first field each handler gets, the target mode a
\* threshold write gets behind the eco gate, and the available modes a
\* target-mode write gets behind it.
C19_AbsentField ==
    [][\A p \in Procs :
         (FetchEnds(p) /\ last'.fetch = "accessor")
         => /\ IsAbsent(cache', FirstField(req[p].kind)) => DoesNotExist(p)
            /\ (/\ req[p].kind = "TargetHeatingCoolingStateSet"
                /\ PresentEco(cache')
                /\ IsAbsent(cache', "availableTargetModes"))
               => DoesNotExist(p)
            /\ (/\ req[p].kind \in GatedKinds \ {"TargetHeatingCoolingStateSet"}
                /\ PresentEco(cache')
                /\ IsAbsent(cache', "targetMode"))
               => DoesNotExist(p)]_vars

\* The humidity was read from a snapshot that has none.
C19_Witness ==
    /\ last.kind = "CurrentRelativeHumidityGet"
    /\ last.fetch = "accessor"
    /\ last.value = "RESOURCE_DOES_NOT_EXIST"
    /\ cache.traits # Null
    /\ cache.traits.relativeHumidity = Absent

\* C20 (zero is not absent): a getter for a field that is present with value
\* 0 returns 0 and does not invoke the error callback (current temperature,
\* relative humidity), and a lone setpoint of 0 is returned by the
\* target-temperature read.
C20_AsStated ==
    [][\A p \in Procs :
         (FetchEnds(p) /\ last'.fetch = "accessor")
         => /\ (/\ req[p].kind \in {"CurrentTemperatureGet",
                                      "CurrentRelativeHumidityGet"}
                /\ cache'.traits[FirstField(req[p].kind)] = Some(0))
               => last'.num = Some(0)
            /\ (/\ req[p].kind = "TargetTemperatureGet"
                /\ HasSetpoints(cache')
                /\ Existing(cache', "heatCelsius") = Some(0)
                /\ Existing(cache', "coolCelsius") = Absent)
               => last'.num = Some(0)]_vars

\* The current temperature was read from a snapshot that holds 0 degrees,
\* and the read failed.
C20_Witness ==
    /\ last.kind = "CurrentTemperatureGet"
    /\ last.fetch = "accessor"
    /\ last.value = "RESOURCE_DOES_NOT_EXIST"
    /\ cache.traits # Null
    /\ cache.traits.currentTemperature = Some(0)

\* ------------------------------------------------------- command claims
\* C21 (non-OK command status): when the remote call of executeCommand
\* returns a status other than 200, the set handler that issued the command
\* completes normally, raising no status error.
C21_NonOkReturns ==
    [][\A p \in Procs :
         (CommandEnds(p) /\ last'.path = "commandFailed")
         => /\ last'.value = "void"
            /\ last'.command = cmd[p]]_vars

\* A threshold write whose command was answered with a non-OK status.
C21_Witness ==
    /\ last.path = "commandFailed"
    /\ last.kind = "CoolingThresholdTemperatureSet"
    /\ last.value = "void"

\* C22 (command failures never propagate): however the remote call of
\* executeCommand ends, with a status or with a transport error, the set
\* handler completes without raising.
C22_AsStated ==
    [][\A p \in Procs : CommandEnds(p) => last'.value = "void"]_vars

\* An eco-switch write ended in the transport error of its command.
C22_Witness ==
    /\ last.path = "commandRaised"
    /\ last.kind = "EcoSwitchSet"
    /\ last.value = "TRANSPORT_ERROR"

\* The status codes a handler may fail with.
StatusCodes ==
    {"RESOURCE_BUSY", "RESOURCE_DOES_NOT_EXIST", "SERVICE_COMMUNICATION_FAILURE",
     "NOT_ALLOWED_IN_CURRENT_STATE", "INVALID_VALUE_IN_REQUEST",
     "READ_ONLY_CHARACTERISTIC"}

\* What `last.value' holds when the step did not fail: nothing yet, a
\* returned value, a command on its way, a completed write.
Successes ==
    {"none", "number", "undefined", "true", "false", "command", "void",
     "TemperatureDisplayUnits.FAHRENHEIT", "TemperatureDisplayUnits.CELSIUS"}
    \cup HeatingCoolingValues

\* C23 (status codes only): every failure of a get or set handler is one of
\* the six status codes; no other error, such as a raw transport exception,
\* leaves a handler.
C23_AsStated == last.value \in Successes \cup StatusCodes

\* A read handler ended in the transport error of its remote read.
C23_Witness ==
    /\ last.path = "raised"
    /\ last.kind = "CurrentTemperatureGet"
    /\ last.value \notin Successes \cup StatusCodes

\* Apart from transport errors, the handlers end in a success or a status
\* code.
C23_ButTransport ==
    last.path \notin {"raised", "commandRaised"}
    => last.value \in Successes \cup StatusCodes

\* ------------------------------------------------------- ordering claims
\* The remote read the entry came from, 0 for the empty cache.
EntryRead(entry) == IF entry.traits = Null THEN 0 ELSE entry.traits.read

\* The refresh p arrived behind is still in flight.
StillBehind(p) ==
    /\ behind[p] # 0
    /\ \E q \in Procs : pc[q] = "reading" /\ rid[q] = behind[p]

\* C24 (ordering): the entries of the cache follow the order of the remote
\* reads and a fetch() that returns the accessor returns that of the entry in
\* the cache at its return, so that a call that begins after a refresh
\* completed observes that refresh or a later one, never an older snapshot;
\* a call that arrives during a refresh holds no lock and does not go on
\* before the refresh is over, unless its wait for the lock expires.
C24_Ordering ==
    [][/\ EntryRead(cache') >= EntryRead(cache)
       /\ \A p \in Procs :
            /\ (FetchEnds(p) /\ last'.fetch = "accessor")
               => last'.seen = EntryRead(cache')
            /\ pc'[p] \in {"granted", "reading"} => owner' = p
            /\ (StillBehind(p) /\ pc'[p] # pc[p])
               => /\ pc[p] = "waiting"
                  /\ \/ last'.value = "RESOURCE_BUSY"
                     \/ ~StillBehind(p)']_vars

\* A call that arrived behind no read was served, from the cache, the entry
\* of the second refresh.
C24_Witness ==
    /\ last.fetch = "accessor"
    /\ last.path = "hit"
    /\ last.behind = 0
    /\ last.seen = EntryRead(cache)
    /\ last.seen >= 2

\* The keys of the payload of each remote command.
Shapes ==
    [c \in {"sdm.devices.commands.ThermostatMode.SetMode", EcoSetMode,
            SetpointName("SetHeat"), SetpointName("SetCool"),
            SetpointName("SetRange")} |->
        CASE c = SetpointName("SetHeat") -> {"heatCelsius"}
          [] c = SetpointName("SetCool") -> {"coolCelsius"}
          [] c = SetpointName("SetRange") -> {"heatCelsius", "coolCelsius"}
          [] OTHER -> {"mode"}]

\* The command has one of the five names and the keys of its shape.
Shaped(command) ==
    /\ command.name \in DOMAIN Shapes
    /\ DOMAIN command.params = Shapes[command.name]

\* Every key of the payload is bound to a defined value.
Defined(command) ==
    \A key \in DOMAIN command.params :
        IF key = "mode"
        THEN command.params[key] \in AllModes \cup {"MANUAL_ECO"}
        ELSE command.params[key] # Absent

InFlight == {p \in Procs : cmd[p] # NoCommand}

\* C25 (command shapes): every remote command a set handler issues has one
\* of the five names, and its payload has exactly the keys of that command,
\* each bound to a defined value; a SetRange carries a defined heatCelsius
\* and a defined coolCelsius.
C25_AsStated == \A p \in InFlight : Shaped(cmd[p]) /\ Defined(cmd[p])

\* The names and the keys alone.
C25_Shaped == \A p \in InFlight : Shaped(cmd[p])

\* In range mode, on a snapshot with a cool setpoint only, a cooling
\* threshold was written: the SetRange in flight has no heat value.
C25_Witness ==
    \E p \in InFlight :
        /\ cmd[p].name = SetpointName("SetRange")
        /\ req[p].kind = "CoolingThresholdTemperatureSet"
        /\ cmd[p].params.heatCelsius = Absent
        /\ cmd[p].params.coolCelsius = Some(req[p].value)

\* ------------------------------------------------------- mapping claims
\* C26 (eco switch): the eco-switch read returns true exactly when the
\* snapshot's ecoMode is MANUAL_ECO, and the eco-switch write issues one
\* ThermostatEco.SetMode command, with mode MANUAL_ECO for a true value and
\* OFF otherwise, without reading the device.
C26_EcoSwitch ==
    [][\A p \in Procs :
         /\ (/\ FetchEnds(p)
             /\ req[p].kind = "EcoSwitchGet"
             /\ last'.fetch = "accessor"
             /\ ~IsAbsent(cache', "ecoMode"))
            => (last'.value = "true" <=> cache'.traits.ecoMode = "MANUAL_ECO")
               /\ last'.value \in {"true", "false"}
         /\ DirectRuns(p, "EcoSwitchSet")
            => /\ pc'[p] = "commanding"
               /\ cmd'[p] = [name |-> EcoSetMode,
                             params |-> [mode |-> IF last'.arg # 0
                                                  THEN "MANUAL_ECO" ELSE "OFF"]]
               /\ reads' = reads
         /\ (CommandEnds(p) /\ req[p].kind = "EcoSwitchSet")
            => last'.command = cmd[p]]_vars

\* The switch was turned on and the command, with MANUAL_ECO, completed.
C26_Witness ==
    /\ last.kind = "EcoSwitchSet"
    /\ last.path = "commandOk"
    /\ last.arg = 1
    /\ last.command.params.mode = "MANUAL_ECO"

\* C27 (HVAC status mapping): after a remote read with status 200 of a
\* document with connectivity ONLINE and an HVAC status, the
\* current-heating-cooling-state read returns HEAT for HEATING, COOL for
\* COOLING and OFF for any other status.
C27_HvacMapping ==
    [][\A p \in Procs :
         (/\ FetchEnds(p)
          /\ last'.path = "refreshed"
          /\ req[p].kind = "CurrentHeatingCoolingStateGet"
          /\ cache'.traits.connectivity = "ONLINE"
          /\ ~IsAbsent(cache', "hvacStatus"))
         => last'.value = CASE cache'.traits.hvacStatus = "HEATING" -> "HEAT"
                            [] cache'.traits.hvacStatus = "COOLING" -> "COOL"
                            [] OTHER -> "OFF"]_vars

\* The read was served COOL from a fresh document that reports COOLING.
C27_Witness ==
    /\ last.kind = "CurrentHeatingCoolingStateGet"
    /\ last.path = "refreshed"
    /\ last.value = "COOL"
    /\ cache.traits # Null
    /\ cache.traits.hvacStatus = "COOLING"
    /\ cache.traits.connectivity = "ONLINE"

\* The cached entry reports OFFLINE and is no older than the long budget.
OfflineWithinBudget ==
    /\ ConnectivityOf(cache.traits) = "OFFLINE"
    /\ cache.age <= seconds(OfflineSeconds)

\* C28 (no reads while offline): while the cached entry reports OFFLINE and
\* its age is within the long staleness budget, no remote read is in flight
\* and none is issued, and every fetch() call that ends fails with
\* SERVICE_COMMUNICATION_FAILURE; a remote read is issued on an OFFLINE entry
\* only once the budget has elapsed.
C28_NoReadWhileOffline ==
    [][OfflineWithinBudget
       => /\ Reading = {}
          /\ reads' = reads
          /\ \A p \in Procs :
               (pc[p] \in {"waiting", "granted"} /\ pc'[p] = "idle")
               => /\ last'.pid = p
                  /\ last'.value = CommFailure]_vars

\* A call was refused from an OFFLINE entry exactly 30 s old, after two
\* reads.
C28_Witness ==
    /\ ConnectivityOf(cache.traits) = "OFFLINE"
    /\ cache.age = seconds(OfflineSeconds)
    /\ last.path = "hit"
    /\ last.value = CommFailure
    /\ reads = 2

\* On an OFFLINE entry older than the budget the read is issued again.
C28_ReadAgain ==
    /\ ConnectivityOf(cache.traits) = "OFFLINE"
    /\ cache.age > seconds(OfflineSeconds)
    /\ Reading # {}

\* -------------------------------------------------- notification claims
\* A remote read returns status 200 in this step: a refresh.
Refreshes == okReads' # okReads

Notified == notes' # notes

\* C29 (display-unit notification): onDisplayUnit is invoked only by a
\* refresh, by the call that holds the lock, and at most once; a refresh
\* invokes it exactly when the new snapshot has a display unit that differs
\* from that of the previous entry, no previous entry counting as different,
\* and then with the new unit; cache hits and failed reads never notify.
C29_Notification ==
    [][/\ Notified
          => /\ Refreshes
             /\ \E p \in Procs : owner = p /\ pc[p] = "reading"
             /\ notes' = Append(notes, cache'.traits.displayUnit)
             /\ props' = onDisplayUnit(cache'.traits.displayUnit)
       /\ Refreshes
          => (Notified <=> /\ cache'.traits.displayUnit # Undefined
                           /\ cache'.traits.displayUnit # PreviousUnit)
       /\ ~Notified => props' = props]_vars

\* Two refreshes notified, the second because the unit changed.
C29_Witness ==
    /\ Len(notes) = 2
    /\ notes[1] # notes[2]
    /\ props = onDisplayUnit(notes[2])

\* C30 (no redundant reconfiguration): over any sequence of refreshes,
\* snapshots without a display unit included, onDisplayUnit is never invoked
\* twice in a row with the same unit.
C30_AsStated == \A i \in 1..(Len(notes) - 1) : notes[i] # notes[i + 1]

\* The same, as long as every snapshot carries its display unit.
C30_UnitKept ==
    [][(\A i \in 1..(Len(notes) - 1) : notes[i] # notes[i + 1])
       /\ (Refreshes /\ PreviousUnit # Undefined)
       /\ cache'.traits.displayUnit # Undefined
       => \A i \in 1..(Len(notes') - 1) : notes'[i] # notes'[i + 1]]_vars

\* FAHRENHEIT was notified twice in a row, the entry in between having had
\* no unit.
C30_Witness ==
    /\ Len(notes) = 2
    /\ notes[1] = "FAHRENHEIT"
    /\ notes[2] = "FAHRENHEIT"

\* ------------------------------------------------------ structural claims
\* C31: a single fetch() call issues at most one remote read, whatever the
\* outcome: a read is issued only by a call that holds the lock and has
\* issued none, and when its read ends, in a status 200, another status or
\* a transport error, the fetch() of the call ends with it.
C31_NoRetries ==
    [][/\ reads' # reads
           => /\ reads' = reads + 1
              /\ Cardinality({p \in Procs : rid'[p] # rid[p] /\ rid'[p] # 0}) = 1
       /\ \A p \in Procs :
             /\ (rid'[p] # rid[p] /\ rid'[p] # 0)
                    => /\ rid[p] = 0
                       /\ pc[p] = "granted"
                       /\ pc'[p] = "reading"
                       /\ rid'[p] = reads'
                       /\ reads' = reads + 1
             /\ pc[p] \in {"idle", "waiting", "granted"} => rid[p] = 0
             /\ (pc[p] = "reading" /\ pc'[p] # "reading")
                    => /\ pc'[p] \in {"idle", "commanding"}
                       /\ reads' = reads
                       /\ last'.pid = p
                       /\ last'.issued = rid[p]
                       /\ last'.path \in {"refreshed", "failed", "raised"}]_vars

C31_Witness ==
    /\ last.path = "raised"
    /\ last.issued = 2
    /\ reads = 2
    /\ okReads = {}

\* C32: in every reachable state the cached traits and the Accessor are both
\* absent or both present, the Accessor wraps exactly the cached traits,
\* which a status-200 read produced, and the entry's time stamp is the time
\* of the save that stored them: entry and age change only together.
C32_EntryConsistent ==
    /\ [](/\ cache.traits = Null <=> cache.characrestics = Null
          /\ cache.traits # Null
                 => /\ cache.characrestics = NewCharacteristics(cache.traits)
                    /\ cache.traits.read \in okReads)
    /\ [][/\ okReads' # okReads
              => /\ cache'.age = 0
                 /\ cache'.traits.read \in okReads' \ okReads
                 /\ cache'.characrestics = NewCharacteristics(cache'.traits)
          /\ okReads' = okReads
              => /\ cache'.traits = cache.traits
                 /\ cache'.characrestics = cache.characrestics
                 /\ cache'.age >= cache.age]_vars

C32_Witness ==
    /\ cache.traits # Null
    /\ cache.traits.read = 2
    /\ cache.characrestics = NewCharacteristics(cache.traits)
    /\ cache.age > 0
    /\ last.path = "failed"

\* A fetch() of some call is past fetchMutex.acquire() and not yet over.
InFetch == {p \in Procs : pc[p] \in {"granted", "reading"}}

\* C35: the lock is released on every exit path of fetch(), a cache hit, an
\* OFFLINE entry found alive, a non-OK status without an entry, a transport
\* error and a successful refresh: the lock is held only by a call whose
\* fetch() is in progress, and a call whose fetch() ends no longer holds it.
C35_LockReleased ==
    /\ [](/\ owner # 0 => owner \in InFetch
          /\ InFetch = {} => (owner = 0 /\ queue = <<>>))
    /\ [][\A p \in Procs :
             (p \in InFetch /\ pc'[p] \notin {"granted", "reading"})
                 => /\ owner = p
                    /\ owner' # p
                    /\ last'.pid = p
                    /\ last'.path \in {"hit", "refreshed", "failed", "raised"}]_vars

C35_Witness ==
    /\ last.path = "raised"
    /\ owner = 0
    /\ InFetch = {}
    /\ cache.traits = Null

\* C36: the staleness budget is always 5 s or 30 s, and whenever the lock is
\* free and no fetch() is under way it is 30 s exactly when the cached
\* entry's connectivity is OFFLINE.
C36_TimeoutFollowsConnectivity ==
    /\ timeout \in {seconds(5), seconds(30)}
    /\ (owner = 0 /\ InFetch = {})
           => (timeout = seconds(30) <=> ConnectivityOf(cache.traits) = "OFFLINE")

C36_Witness ==
    /\ owner = 0
    /\ InFetch = {}
    /\ timeout = seconds(30)
    /\ ConnectivityOf(cache.traits) = "OFFLINE"
    /\ last.path = "raised"

\* ---------------------------------------------------------- write claims
SetKinds ==
    {"TargetHeatingCoolingStateSet", "TargetTemperatureSet",
     "TemperatureDisplayUnitsSet", "CoolingThresholdTemperatureSet",
     "HeatingThresholdTemperatureSet", "EcoSwitchSet"}

\* A step of the handler of p ends, in its return, its throw or its command.
HandlerStep(p) == last' # last /\ last'.pid = p

\* C37: an invocation of a set handler issues at most one remote command:
\* a command is issued only by a handler that has issued none, and when the
\* command is over so is the handler; a handler that fails with a status
\* code (a failed fetch, an absent trait, the eco gate, a mode mismatch, an
\* invalid mode, a read-only characteristic) issues none.
C37_OneCommand ==
    [][\A p \in Procs :
          /\ (cmd'[p] # cmd[p] /\ cmd'[p] # NoCommand)
                 => /\ cmd[p] = NoCommand
                    /\ pc[p] # "commanding"
                    /\ pc'[p] = "commanding"
                    /\ HandlerStep(p)
                    /\ last'.kind \in SetKinds
                    /\ last'.value = "command"
                    /\ last'.command = cmd'[p]
          /\ pc[p] # "commanding" => cmd[p] = NoCommand
          /\ (pc[p] = "commanding" /\ pc'[p] # "commanding")
                 => /\ pc'[p] = "idle"
                    /\ cmd'[p] = NoCommand
                    /\ last'.command = cmd[p]
          /\ (HandlerStep(p) /\ pc[p] # "commanding"
                  /\ last'.value \in StatusCodes)
                 => /\ pc'[p] = "idle"
                    /\ cmd'[p] = NoCommand
                    /\ last'.command = NoCommand]_vars

C37_Witness ==
    /\ last.kind = "CoolingThresholdTemperatureSet"
    /\ last.path = "commandOk"
    /\ last.command # NoCommand
    /\ \A p \in Procs : pc[p] = "idle" /\ cmd[p] = NoCommand

\* The snapshot fetch() serves to the handler of p: a live entry, under the
\* lock.
ServedFromCache(p) ==
    /\ pc[p] = "granted"
    /\ FetchEnds(p)
    /\ CacheAlive

\* C38: executeCommand leaves the cache entry and the staleness budget as
\* they are, so a handler run within the budget after a successful write is
\* served the snapshot from before the write: a target-mode write right
\* after a successful eco-switch write of OFF, on a snapshot in MANUAL_ECO,
\* is still rejected with NOT_ALLOWED_IN_CURRENT_STATE.
C38_CommandKeepsCache ==
    [][\A p \in Procs :
          /\ (pc[p] = "commanding" \/ (pc'[p] = "commanding" /\ ~FetchEnds(p)))
                 => (cache' = cache /\ timeout' = timeout /\ reads' = reads)
          /\ (ServedFromCache(p) /\ last.path = "commandOk")
                 => /\ cache' = cache
                    /\ reads' = reads
                    /\ last'.path = "hit"
                    /\ last'.seen = cache.traits.read
                    /\ last'.fetch = "accessor"
                           => last'.value =
                                 HandlerBody(req[p], cache.characrestics).value
          /\ (/\ ServedFromCache(p)
              /\ last.path = "commandOk"
              /\ last.kind = "EcoSwitchSet"
              /\ last.arg = 0
              /\ req[p].kind = "TargetHeatingCoolingStateSet"
              /\ ConnectivityOf(cache.traits) # "OFFLINE"
              /\ cache.traits.ecoMode = "MANUAL_ECO")
                 => /\ last'.value = "NOT_ALLOWED_IN_CURRENT_STATE"
                    /\ cmd'[p] = NoCommand]_vars

C38_Witness ==
    /\ last.kind = "EcoSwitchSet"
    /\ last.arg = 0
    /\ last.path = "commandOk"
    /\ \E p \in Procs :
          /\ pc[p] = "granted"
          /\ req[p].kind = "TargetHeatingCoolingStateSet"
    /\ CacheAlive
    /\ ConnectivityOf(cache.traits) # "OFFLINE"
    /\ cache.traits.ecoMode = "MANUAL_ECO"

\* ------------------------------------------------------------ unit claims
\* The unit onDisplayUnit was last called with.
LastUnit == notes[Len(notes)]

\* `value' is `hundredths' / 100 degrees Celsius, within 0.01.
Near(value, hundredths) ==
    /\ 100 * value - hundredths * PerDegree <= PerDegree
    /\ hundredths * PerDegree - 100 * value <= PerDegree

Exactly(value, hundredths) == 100 * value = hundredths * PerDegree

\* C34: onDisplayUnit(CELSIUS) sets the step 0.1, the set range 10..32 and
\* the measurement range -20..60; onDisplayUnit(FAHRENHEIT) sets the bounds
\* (f - 32) / 1.8 of 50 and 90 (set) and of 0 and 160 (measurement), so that
\* minSet is 10.0 and maxSet 32.22 within 0.01; a second call with the same
\* unit leaves the ranges as they are.
C34_UnitRanges ==
    /\ [](notes # <<>>
            => /\ Exactly(props.minStep, 10)
               /\ LastUnit = "CELSIUS"
                      => /\ Exactly(props.minSet, 1000)
                         /\ Exactly(props.maxSet, 3200)
                         /\ Exactly(props.minGet, -2000)
                         /\ Exactly(props.maxGet, 6000)
               /\ LastUnit = "FAHRENHEIT"
                      => /\ Near(props.minSet, 1000)
                         /\ Near(props.maxSet, 3222)
                         /\ 9 * props.minSet = (50 - 32) * 5 * PerDegree
                         /\ 9 * props.maxSet = (90 - 32) * 5 * PerDegree
                         /\ 9 * props.minGet = (0 - 32) * 5 * PerDegree
                         /\ 9 * props.maxGet = (160 - 32) * 5 * PerDegree)
    /\ [][(Notified /\ notes # <<>> /\ notes'[Len(notes')] = LastUnit)
              => props' = props]_vars

\* FAHRENHEIT applied twice in a row, the ranges being those of FAHRENHEIT.
C34_Witness ==
    /\ Len(notes) = 2
    /\ notes[1] = LastUnit
    /\ LastUnit = "FAHRENHEIT"
    /\ Near(props.maxSet, 3222)

\* ------------------------------------------------------ Cache-class claim
\* C33 (Cache-class variant): a fetch() made while no snapshot has ever been
\* stored performs a remote read; an empty cache is never treated as live,
\* however recently the cache was constructed.
C33_AsStated ==
    [][\A p \in Procs :
          (pc[p] = "granted" /\ pc'[p] # "granted" /\ okReads = {})
              => (pc'[p] = "reading" /\ reads' = reads + 1)]_vars

\* The same once the 5 s since the construction are over.
C33_AfterFiveSeconds ==
    [][\A p \in Procs :
          (/\ pc[p] = "granted"
           /\ pc'[p] # "granted"
           /\ okReads = {}
           /\ cache.age > seconds(5))
              => (pc'[p] = "reading" /\ reads' = reads + 1)]_vars

\* A call served by the empty cache: no read, and the call fails.
C33_Witness ==
    /\ last.path = "hit"
    /\ last.fetch = CommFailure
    /\ reads = 0
    /\ cache = [EmptyCache EXCEPT !.age = seconds(5)]

\* -------------------------------------------------------- discovery claim
RestoredUUIDs == {platform.accessories[i].UUID : i \in 1..Len(platform.accessories)}

RegisteredUUIDs == {platform.registered[i].UUID : i \in 1..Len(platform.registered)}

HandlerUUIDs == {platform.handlers[i] : i \in 1..Len(platform.handlers)}

\* The listed devices with a string name.
Named == {i \in 1..Len(platform.listed) : platform.listed[i].name # Undefined}

\* Registration happens at most once, of new accessories only, each with
\* its handler.
AtMostOnce ==
    /\ \A i, j \in 1..Len(platform.registered) :
          platform.registered[i].UUID = platform.registered[j].UUID => i = j
    /\ RegisteredUUIDs \cap RestoredUUIDs = {}
    /\ RegisteredUUIDs \subseteq {generate(platform.listed[i].name) : i \in Named}
    /\ HandlerUUIDs \subseteq {generate(platform.listed[i].name) : i \in Named}
    /\ RegisteredUUIDs \subseteq HandlerUUIDs
    /\ Len(platform.handlers) <= Cardinality(Named)

\* C40: accessories are registered at most once: discoverDevices registers
\* only accessories whose UUID is not among the restored ones; a device that
\* matches a restored accessory gets a handler and is not registered again;
\* a device without a string name is skipped.
C40_AsStated ==
    platform.phase \in {"done", "raised"}
        => /\ AtMostOnce
           /\ \A i \in Named :
                 generate(platform.listed[i].name) \in RestoredUUIDs
                     => generate(platform.listed[i].name) \in HandlerUUIDs

\* The same without the handlers of the restored accessories.
C40_AtMostOnce == AtMostOnce

\* A new device without parent relation is listed before the device of a
\* restored accessory, which then has no handler.
C40_Witness ==
    /\ platform.phase = "raised"
    /\ Len(platform.listed) = 2
    /\ platform.listed[1].name # Undefined
    /\ platform.listed[2].name # Undefined
    /\ generate(platform.listed[1].name) \notin RestoredUUIDs
    /\ generate(platform.listed[2].name) \in RestoredUUIDs
    /\ platform.handlers = <<>>
    /\ platform.registered = <<>>

\* ---------------------------------------------------------- progress claim
\* The reads of this model are used up while a call holds the lock on an
\* entry that is not alive: the behaviour goes on beyond the model.
Exhausted ==
    /\ reads = MaxReads
    /\ ~CacheAlive
    /\ \E p \in Procs : pc[p] = "granted"

\* C39: every fetch() call eventually completes, provided each remote read
\* eventually responds or raises: a waiter gets the lock or fails with
\* RESOURCE_BUSY once its wait is over, and a call holding the lock returns
\* or throws.
C39_FetchCompletes ==
    \A p \in Procs : (pc[p] # "idle") ~> (pc[p] = "idle" \/ Exhausted)

\* A call that waited behind a read is over, another one being under way.
C39_Witness ==
    /\ last.behind # 0
    /\ last.fetch # Busy
    /\ pc[last.pid] = "idle"
    /\ \E p \in Procs : pc[p] = "reading"

=============================================================================
